---------------------------- MODULE Spec2Model ----------------------------
(***************************************************************************)
(* A model of the weather orchestration core: the keyword task classifier, *)
(* the gazetteer location resolver and the query pipeline of               *)
(* SimpleOrchestrator.process_query (src/simple_orchestrator.py).          *)
(*                                                                         *)
(* Strings are sequences of one-character strings, so that lower(),        *)
(* title() and the substring test `x in y` are computed and not assumed.   *)
(***************************************************************************)
EXTENDS Integers, Sequences, FiniteSets, TLC

(***************************************************************************)
(* Bounds of the model.                                                    *)
(***************************************************************************)
\* Longest query, in words of Vocabulary.
MaxWords == 3
\* Number of process_query calls that may be in flight together.
NCalls == 2

(***************************************************************************)
(* Python string operations.                                               *)
(***************************************************************************)
UpperChars == <<"A","B","C","D","E","F","G","H","I","J","K","L","M","N","O","P","Q","R","S","T","U","V","W","X","Y","Z">>
LowerChars == <<"a","b","c","d","e","f","g","h","i","j","k","l","m","n","o","p","q","r","s","t","u","v","w","x","y","z">>

\* The case mappings of the letters.
ToLower ==
    [ch \in {UpperChars[i] : i \in 1..Len(UpperChars)} |->
        LowerChars[CHOOSE i \in 1..Len(UpperChars) : UpperChars[i] = ch]]

ToUpper ==
    [ch \in {LowerChars[i] : i \in 1..Len(LowerChars)} |->
        UpperChars[CHOOSE i \in 1..Len(LowerChars) : LowerChars[i] = ch]]

\* str.lower() on one character.
LowerChar(ch) == IF ch \in DOMAIN ToLower THEN ToLower[ch] ELSE ch

\* str.upper() on one character.
UpperChar(ch) == IF ch \in DOMAIN ToUpper THEN ToUpper[ch] ELSE ch

IsLetter(ch) == ch \in DOMAIN ToLower \/ ch \in DOMAIN ToUpper

\* str.lower()
Lower(s) == [i \in 1..Len(s) |-> LowerChar(s[i])]

\* str.title(): a letter that follows a letter is lowercased, any other
\* letter is uppercased.
Title(s) ==
    [i \in 1..Len(s) |->
        IF i > 1 /\ IsLetter(s[i - 1]) THEN LowerChar(s[i]) ELSE UpperChar(s[i])]

\* The substring test `x in s`.
Contains(s, x) ==
    \E i \in 1..(Len(s) - Len(x) + 1) : SubSeq(s, i, i + Len(x) - 1) = x

\* any(word in s for word in words)
AnyWordIn(words, s) == \E i \in 1..Len(words) : Contains(s, words[i])

\* Optional values: dict.get(key) returns None for a missing key, and the
\* callers test the result by truthiness; every mapped value is non-empty.
None == <<>>

(***************************************************************************)
(* Task classifier.                                                        *)
(***************************************************************************)
WEATHER_QUERY == "weather_query"
FORECAST_ANALYSIS == "forecast_analysis"
ALERT_MONITORING == "alert_monitoring"
MULTI_LOCATION == "multi_location"
GENERAL_INQUIRY == "general_inquiry"

TaskType ==
    {WEATHER_QUERY, FORECAST_ANALYSIS, ALERT_MONITORING, MULTI_LOCATION,
     GENERAL_INQUIRY}

forecast_words ==
    << <<"f","o","r","e","c","a","s","t">>,
       <<"p","r","e","d","i","c","t","i","o","n">>,
       <<"f","u","t","u","r","e">>,
       <<"t","o","m","o","r","r","o","w">>,
       <<"w","e","e","k">> >>

alert_words ==
    << <<"a","l","e","r","t">>,
       <<"w","a","r","n","i","n","g">>,
       <<"s","t","o","r","m">>,
       <<"e","m","e","r","g","e","n","c","y">> >>

multi_words ==
    << <<"m","u","l","t","i","p","l","e">>,
       <<"c","o","m","p","a","r","e">>,
       <<"c","i","t","i","e","s">>,
       <<"l","o","c","a","t","i","o","n","s">> >>

weather_words ==
    << <<"w","e","a","t","h","e","r">>,
       <<"t","e","m","p","e","r","a","t","u","r","e">>,
       <<"c","u","r","r","e","n","t">>,
       <<"n","o","w">> >>

\* Mutant: the multi-location keywords are tested before the forecast ones.
classify_task_multi_first(q) ==
    LET query_lower == Lower(q) IN
    IF AnyWordIn(multi_words, query_lower) THEN MULTI_LOCATION
    ELSE IF AnyWordIn(forecast_words, query_lower) THEN FORECAST_ANALYSIS
    ELSE IF AnyWordIn(alert_words, query_lower) THEN ALERT_MONITORING
    ELSE IF AnyWordIn(weather_words, query_lower) THEN WEATHER_QUERY
    ELSE GENERAL_INQUIRY

\* Mutant: a query without any keyword is taken for a weather query.
classify_task_weather_default(q) ==
    LET query_lower == Lower(q) IN
    IF AnyWordIn(forecast_words, query_lower) THEN FORECAST_ANALYSIS
    ELSE IF AnyWordIn(alert_words, query_lower) THEN ALERT_MONITORING
    ELSE IF AnyWordIn(multi_words, query_lower) THEN MULTI_LOCATION
    ELSE WEATHER_QUERY

\* SimpleOrchestrator._classify_task
_classify_task(q) ==
    LET query_lower == Lower(q) IN
    IF AnyWordIn(forecast_words, query_lower) THEN FORECAST_ANALYSIS
    ELSE IF AnyWordIn(alert_words, query_lower) THEN ALERT_MONITORING
    ELSE IF AnyWordIn(multi_words, query_lower) THEN MULTI_LOCATION
    ELSE IF AnyWordIn(weather_words, query_lower) THEN WEATHER_QUERY
    ELSE GENERAL_INQUIRY

(***************************************************************************)
(* Location resolver.                                                      *)
(***************************************************************************)
common_cities ==
    << <<"l","o","n","d","o","n">>,
       <<"p","a","r","i","s">>,
       <<"n","e","w"," ","y","o","r","k">>,
       <<"t","o","k","y","o">>,
       <<"s","y","d","n","e","y">>,
       <<"b","e","r","l","i","n">>,
       <<"r","o","m","e">>,
       <<"m","a","d","r","i","d">>,
       <<"a","m","s","t","e","r","d","a","m">>,
       <<"b","a","r","c","e","l","o","n","a">>,
       <<"v","i","e","n","n","a">>,
       <<"p","r","a","g","u","e">>,
       <<"m","o","s","c","o","w">>,
       <<"b","e","i","j","i","n","g">>,
       <<"m","u","m","b","a","i">>,
       <<"d","e","l","h","i">>,
       <<"b","a","n","g","k","o","k">>,
       <<"s","i","n","g","a","p","o","r","e">>,
       <<"l","o","s"," ","a","n","g","e","l","e","s">>,
       <<"c","h","i","c","a","g","o">>,
       <<"h","o","u","s","t","o","n">>,
       <<"p","h","o","e","n","i","x">>,
       <<"p","h","i","l","a","d","e","l","p","h","i","a">>,
       <<"s","a","n"," ","f","r","a","n","c","i","s","c","o">>,
       <<"s","e","a","t","t","l","e">>,
       <<"b","o","s","t","o","n">>,
       <<"a","t","l","a","n","t","a">>,
       <<"m","i","a","m","i">> >>

us_states ==
    << <<"c","a","l","i","f","o","r","n","i","a">>,
       <<"t","e","x","a","s">>,
       <<"f","l","o","r","i","d","a">>,
       <<"n","e","w"," ","y","o","r","k">>,
       <<"p","e","n","n","s","y","l","v","a","n","i","a">>,
       <<"i","l","l","i","n","o","i","s">>,
       <<"o","h","i","o">>,
       <<"g","e","o","r","g","i","a">>,
       <<"n","o","r","t","h"," ","c","a","r","o","l","i","n","a">>,
       <<"m","i","c","h","i","g","a","n">> >>

\* A dict literal, from its items <<key, value>>; the keys are distinct.
Dict(items) ==
    [key \in {items[i][1] : i \in 1..Len(items)} |->
        items[CHOOSE i \in 1..Len(items) : items[i][1] = key][2]]

state_mapping ==
  Dict(
    << <<<<"c","a","l","i","f","o","r","n","i","a">>, <<"C","A">>>>,
       <<<<"t","e","x","a","s">>, <<"T","X">>>>,
       <<<<"f","l","o","r","i","d","a">>, <<"F","L">>>>,
       <<<<"n","e","w"," ","y","o","r","k">>, <<"N","Y">>>>,
       <<<<"p","e","n","n","s","y","l","v","a","n","i","a">>, <<"P","A">>>>,
       <<<<"i","l","l","i","n","o","i","s">>, <<"I","L">>>>,
       <<<<"o","h","i","o">>, <<"O","H">>>>,
       <<<<"g","e","o","r","g","i","a">>, <<"G","A">>>>,
       <<<<"n","o","r","t","h"," ","c","a","r","o","l","i","n","a">>, <<"N","C">>>>,
       <<<<"m","i","c","h","i","g","a","n">>, <<"M","I">>>> >>)

coord_mapping ==
  Dict(
    << <<<<"l","o","n","d","o","n">>, <<515074, -1278>> >>,
       <<<<"p","a","r","i","s">>, <<488566, 23522>> >>,
       <<<<"n","e","w"," ","y","o","r","k">>, <<407128, -740060>> >>,
       <<<<"t","o","k","y","o">>, <<356762, 1396503>> >>,
       <<<<"s","y","d","n","e","y">>, <<-338688, 1512093>> >>,
       <<<<"b","e","r","l","i","n">>, <<525200, 134050>> >>,
       <<<<"l","o","s"," ","a","n","g","e","l","e","s">>, <<340522, -1182437>> >>,
       <<<<"c","h","i","c","a","g","o">>, <<418781, -876298>> >> >>)

\* The names of `names`, in list order, that occur in s, each title-cased.
RECURSIVE Matches(_, _)
Matches(names, s) ==
    IF names = <<>> THEN <<>>
    ELSE (IF Contains(s, Head(names)) THEN <<Title(Head(names))>> ELSE <<>>)
         \o Matches(Tail(names), s)

\* Mutant: the last occurrence of each element is kept.
RECURSIVE DedupKeepLast(_)
DedupKeepLast(xs) ==
    IF xs = <<>> THEN <<>>
    ELSE LET back == DedupKeepLast(Tail(xs))
         IN  IF \E i \in 1..Len(back) : back[i] = Head(xs)
             THEN back
             ELSE <<Head(xs)>> \o back

\* list(dict.fromkeys(xs)): the first occurrence of each element is kept.
RECURSIVE Dedup(_)
Dedup(xs) ==
    IF xs = <<>> THEN <<>>
    ELSE LET front == Dedup(SubSeq(xs, 1, Len(xs) - 1))
             last == xs[Len(xs)]
         IN  IF \E i \in 1..Len(front) : front[i] = last
             THEN front
             ELSE Append(front, last)

\* SimpleOrchestrator._extract_locations
_extract_locations(q) ==
    LET query_lower == Lower(q)
        found_locations ==
            Matches(common_cities, query_lower) \o Matches(us_states, query_lower)
    IN  Dedup(found_locations)

\* dict.get(key): the value of the key, None for a missing key.
Lookup(mapping, key) == IF key \in DOMAIN mapping THEN mapping[key] ELSE None

\* SimpleOrchestrator._get_state_code
_get_state_code(location) == Lookup(state_mapping, Lower(location))

\* SimpleOrchestrator._get_coordinates; degrees times 10000.
_get_coordinates(location) == Lookup(coord_mapping, Lower(location))

(***************************************************************************)
(* Source gateway: what one HTTP POST to a tool endpoint can do, and the   *)
(* value _call_*_tool returns for it.                                      *)
(***************************************************************************)
\* The transport fails, or answers without a usable JSON body.
TransportFailures == {"exception", "bad_status", "empty_body", "bad_json"}

\* Parsed JSON bodies: an observation object, an error object, a text, the
\* text "No active alerts", a text starting with "Error", and a list (a body
\* that is neither an object nor a text).
JsonBodies ==
    {"observation", "error_reply", "text", "no_alerts_text", "error_text", "list"}

Outcomes == TransportFailures \cup JsonBodies

\* What a POST to each tool endpoint can do: the bodies the endpoints of the
\* weather server return (get_weather an object, get_forecast and get_alerts
\* a text or an error object), the error texts the formatter tests for, and
\* a body of another JSON type.
ToolOutcomes(tool) ==
    TransportFailures \cup
    CASE tool = "get_weather" -> {"observation", "error_reply", "list"}
      [] tool = "get_forecast" -> {"text", "error_text", "error_reply", "list"}
      [] tool = "get_alerts" ->
            {"text", "no_alerts_text", "error_text", "error_reply", "list"}
      [] OTHER -> {}

\* Names of the servers in the registry (MCPServerRegistry.servers).
registry_servers == {"weather-server"}

\* MCPServerRegistry.get_server
get_server(name) == name \in registry_servers

\* The error dict {"error": message}.
ErrorDict(message) == [type |-> "dict", has_error |-> TRUE, body |-> message]

\* The value response.json() yields for a parsed body.
JsonValue(body) ==
    CASE body = "observation" -> [type |-> "dict", has_error |-> FALSE, body |-> body]
      [] body = "error_reply" -> [type |-> "dict", has_error |-> TRUE, body |-> body]
      [] body = "list" -> [type |-> "list", has_error |-> FALSE, body |-> body]
      [] OTHER -> [type |-> "str", has_error |-> FALSE, body |-> body]

\* SimpleOrchestrator._call_weather_tool, _call_forecast_tool and
\* _call_alerts_tool: the three differ in the endpoint and in the wording of
\* the error messages only.
_call_tool(outcome) ==
    IF ~get_server("weather-server") THEN ErrorDict("server_not_found")
    ELSE IF outcome = "exception" THEN ErrorDict("failed_to_call")
    ELSE IF outcome = "bad_status" THEN ErrorDict("returned_status")
    ELSE IF outcome = "empty_body" THEN ErrorDict("empty_response")
    ELSE IF outcome = "bad_json" THEN ErrorDict("failed_to_parse")
    ELSE JsonValue(outcome)

\* isinstance(v, str)
IsStr(v) == v.type = "str"

\* v.startswith("Error")
StartsWithError(v) == v.body = "error_text"

\* "No active alerts" in v
HasNoActiveAlerts(v) == v.body = "no_alerts_text"

\* "error" in str(v): the repr of a dict names its keys.
ErrorInStr(v) == v.type = "dict" /\ v.has_error

\* `"error" in v` followed by v.get(...) or v["error"] raises for a value
\* that is not a dict (AttributeError or TypeError).
RaisesOnDictUse(v) == v.type # "dict"

(***************************************************************************)
(* Response formatter.                                                     *)
(***************************************************************************)
KEY_forecast == <<"f","o","r","e","c","a","s","t">>
KEY_alerts == <<"a","l","e","r","t","s">>

\* dict assignment d[key] = value
DictSet(d, key, value) == (key :> value) @@ d

EmptyDict == <<>>

Response(rule, subject, lines, raw) ==
    [rule |-> rule, subject |-> subject, lines |-> lines, raw |-> raw]

\* Mutant: the function ends without its last return and yields None.
FallbackMissing(data) == Response("none", None, <<>>, EmptyDict)

\* The fallback of _format_response: the raw data as JSON text.
Fallback(data) == Response("fallback", None, <<>>, data)

\* The lines of the MULTI_LOCATION comparison.
RECURSIVE ComparisonLines(_, _)
ComparisonLines(data, locations) ==
    IF locations = <<>> THEN <<>>
    ELSE LET location == Head(locations)
             rest == ComparisonLines(data, Tail(locations))
         IN  IF Lower(location) \in DOMAIN data
             THEN <<[kind |-> IF data[Lower(location)].has_error
                              THEN "error" ELSE "normal",
                     location |-> location]>> \o rest
             ELSE rest

\* Whether _format_response raises.
FormatRaises(task_type, data, locations) ==
    CASE task_type = WEATHER_QUERY ->
            /\ Len(locations) = 1
            /\ Lower(locations[1]) \in DOMAIN data
            /\ RaisesOnDictUse(data[Lower(locations[1])])
      [] task_type = MULTI_LOCATION ->
            \E i \in 1..Len(locations) :
                /\ Lower(locations[i]) \in DOMAIN data
                /\ RaisesOnDictUse(data[Lower(locations[i])])
      [] OTHER -> FALSE

\* SimpleOrchestrator._format_response, where it returns.
_format_response(task_type, data, locations) ==
    CASE task_type = WEATHER_QUERY ->
            IF Len(locations) = 1 /\ Lower(locations[1]) \in DOMAIN data
            THEN LET weather_data == data[Lower(locations[1])] IN
                 IF weather_data.has_error
                 THEN Response("weather_error", locations[1], <<>>, EmptyDict)
                 ELSE Response("weather_current", locations[1], <<>>, EmptyDict)
            ELSE Fallback(data)
      [] task_type = MULTI_LOCATION ->
            LET responses == ComparisonLines(data, locations) IN
            IF responses # <<>>
            THEN Response("weather_comparison", None, responses, EmptyDict)
            ELSE Fallback(data)
      [] task_type = FORECAST_ANALYSIS ->
            IF KEY_forecast \in DOMAIN data /\ locations # <<>>
            THEN LET forecast_data == data[KEY_forecast] IN
                 IF IsStr(forecast_data) /\ ~StartsWithError(forecast_data)
                 THEN Response("forecast_text", locations[1], <<>>, EmptyDict)
                 ELSE IF ErrorInStr(forecast_data)
                 THEN Response("forecast_error", None, <<>>, EmptyDict)
                 ELSE Fallback(data)
            ELSE Fallback(data)
      [] task_type = ALERT_MONITORING ->
            IF KEY_alerts \in DOMAIN data /\ locations # <<>>
            THEN LET alert_data == data[KEY_alerts] IN
                 IF IsStr(alert_data) /\ HasNoActiveAlerts(alert_data)
                 THEN Response("alerts_none", locations[1], <<>>, EmptyDict)
                 ELSE IF IsStr(alert_data) /\ ~StartsWithError(alert_data)
                 THEN Response("alerts_text", locations[1], <<>>, EmptyDict)
                 ELSE IF ErrorInStr(alert_data)
                 THEN Response("alerts_error", None, <<>>, EmptyDict)
                 ELSE Fallback(data)
            ELSE Fallback(data)
      [] OTHER -> Fallback(data)

(***************************************************************************)
(* Data gathering: the source calls process_query issues, in order.        *)
(***************************************************************************)
Call(tool, arg, key, location) ==
    [tool |-> tool, arg |-> arg, key |-> key, location |-> location]

NoCall == Call("none", None, None, None)

\* Mutant: the loop is left after the first location.
WeatherCallsFirstOnly(locations) ==
    IF locations = <<>> THEN <<>>
    ELSE <<Call("get_weather", locations[1], Lower(locations[1]), locations[1])>>

\* Mutant: the loop runs over the list a second time.
WeatherCallsTwice(locations) ==
    LET once == [i \in 1..Len(locations) |->
                    Call("get_weather", locations[i], Lower(locations[i]), locations[i])]
    IN  once \o once

\* for location in locations: await self._call_weather_tool(location)
WeatherCalls(locations) ==
    [i \in 1..Len(locations) |->
        Call("get_weather", locations[i], Lower(locations[i]), locations[i])]

\* Mutant: the first location that has coordinates is used.
ForecastCallsAnyCoords(locations) ==
    IF \E i \in 1..Len(locations) : _get_coordinates(locations[i]) # None
    THEN LET first == CHOOSE i \in 1..Len(locations) :
                        /\ _get_coordinates(locations[i]) # None
                        /\ \A j \in 1..(i - 1) : _get_coordinates(locations[j]) = None
         IN  <<Call("get_forecast", _get_coordinates(locations[first]), KEY_forecast,
                    locations[first])>>
    ELSE <<>>

\* The forecast call, for the first location when it has coordinates.
ForecastCalls(locations) ==
    IF locations # <<>> /\ _get_coordinates(locations[1]) # None
    THEN <<Call("get_forecast", _get_coordinates(locations[1]), KEY_forecast,
                locations[1])>>
    ELSE <<>>

\* Mutant: the loop has no break, every location with a state code is called.
RECURSIVE AlertCallsNoBreak(_)
AlertCallsNoBreak(locations) ==
    IF locations = <<>> THEN <<>>
    ELSE (IF _get_state_code(Head(locations)) # None
          THEN <<Call("get_alerts", _get_state_code(Head(locations)), KEY_alerts,
                      Head(locations))>>
          ELSE <<>>) \o AlertCallsNoBreak(Tail(locations))

\* The alerts loop: the first location with a state code is called and the
\* loop is left (break).
AlertCalls(locations) ==
    IF \E i \in 1..Len(locations) : _get_state_code(locations[i]) # None
    THEN LET first == CHOOSE i \in 1..Len(locations) :
                        /\ _get_state_code(locations[i]) # None
                        /\ \A j \in 1..(i - 1) : _get_state_code(locations[j]) = None
         IN  <<Call("get_alerts", _get_state_code(locations[first]), KEY_alerts,
                    locations[first])>>
    ELSE <<>>

\* Step 3 of process_query: the calls of the branch taken for the task type.
GatherCalls(task, locations) ==
    CASE task \in {WEATHER_QUERY, MULTI_LOCATION} -> WeatherCalls(locations)
      [] task = FORECAST_ANALYSIS -> ForecastCalls(locations)
      [] task = ALERT_MONITORING -> AlertCalls(locations)
      [] OTHER -> <<>>

(***************************************************************************)
(* Execution log and results.                                              *)
(***************************************************************************)
LogEntry(step, text, locations, n) ==
    [step |-> step, text |-> text, locations |-> locations, n |-> n]

\* The log entry written when a gathering branch ends.
GatheredEntry(task, locations, call) ==
    CASE task \in {WEATHER_QUERY, MULTI_LOCATION} ->
            <<LogEntry("gathered_weather", "", <<>>, Len(locations))>>
      [] task = FORECAST_ANALYSIS /\ locations # <<>> ->
            IF call = NoCall
            THEN <<LogEntry("no_coordinates", "", <<>>, 0)>>
            ELSE <<LogEntry("gathered_forecast", "", <<>>, 0)>>
      [] task = ALERT_MONITORING /\ call # NoCall ->
            <<LogEntry("gathered_alerts", "", <<call.location>>, 0)>>
      [] OTHER -> <<>>

\* Mutant: the returned log is the log as it was before the response entry.
SuccessResultStaleLog(response, task, locations, log, data) ==
    [success |-> TRUE, response |-> response, task_type |-> task,
     locations |-> locations, execution_log |-> SubSeq(log, 1, Len(log) - 1),
     raw_data |-> data]

\* The dict process_query returns from its try block.
SuccessResult(response, task, locations, log, data) ==
    [success |-> TRUE, response |-> response, task_type |-> task,
     locations |-> locations, execution_log |-> log, raw_data |-> data]

\* The dict process_query returns from its except block.
FailureResult(error, log) ==
    [success |-> FALSE, error |-> error, execution_log |-> log]

NoResult == [success |-> "none"]

\* Mutant: the handler names an exception class the formatter does not raise.
CatchesNothing(exception) == FALSE

\* except Exception: the handler catches every exception the try block
\* raises (AttributeError and TypeError are Exceptions).
Catches(exception) == TRUE

\* Mutant: the locals are kept on the orchestrator instance, shared by calls.
FrameShared(c) == 1

\* The coroutine frame holding the locals of call c: each call has its own.
Frame(c) == c

\* Mutant: the call is started and not awaited.
NoAwait == "DataGathered"

\* `await`: the coroutine is suspended until the call has returned.
Await == "Gathering"

(***************************************************************************)
(* State.                                                                  *)
(***************************************************************************)
VARIABLES
    query,            \* call -> the user_query argument
    pc,               \* call -> position of the coroutine
    task_type,        \* frame -> local task_type
    locations,        \* frame -> local locations
    gathered_data,    \* frame -> local gathered_data
    execution_log,    \* frame -> local execution_log
    response,         \* frame -> local response
    loop_i,           \* call -> number of gathering calls issued so far
    inflight,         \* call -> the source call awaited, or NoCall
    result,           \* call -> the returned dict, or NoResult
    callLog,          \* call -> the source calls issued (history)
    received,         \* call -> the outcomes of those calls (history)
    concurrent,       \* call -> another call was in flight with it (history)
    source_outcomes   \* the outcomes the sources may produce

\* WeatherIntelligenceAgent.get_consensus_weather
VARIABLES
    cw_location,      \* the location argument
    cw_pc,            \* position of the coroutine
    cw_next,          \* index in data_sources of the source the loop is at
    source_results,   \* local source_results: <<source, data>> in insertion order
    consensus,        \* local consensus
    cw_result,        \* the dict returned
    cw_queried,       \* the sources queried, in order (history)
    cw_fetched        \* what each queried source did (history)

\* AgentCoordinationHub.process_coordinated_query
VARIABLES
    hub_pc,              \* position of the coroutine
    hub_query,           \* the user_query argument
    coordination_type,   \* the coordination_type argument, then the local
    travel_agent,        \* self.travel_agent is set (TRAVEL_AGENT_AVAILABLE)
    weather_orchestrator,\* self.weather_orchestrator is set (LANGGRAPH_AVAILABLE)
    hub_result,          \* the dict returned
    hub_invoked          \* the workflows invoked, in order (history)

\* AlertAgent and AlertCoordinator (src/smart_alert_agent.py)
VARIABLES
    alert_subscriptions, \* self.alert_subscriptions: <<id, config>> in insertion order
    alert_history,       \* self.alert_history
    now,                 \* the clock, in seconds
    setups,              \* what the setup calls stored and returned (history)
    chk_pc,              \* position of check_alerts_for_all_subscriptions
    chk_size,            \* size of the dict when its iterator was made
    chk_i,               \* position of the iterator over the subscriptions
    chk_id,              \* local alert_id
    chk_locs,            \* config["locations"] of local config
    chk_j,               \* position of the iterator over the locations
    triggered_alerts,    \* local triggered_alerts, then the list returned
    chk_log,             \* subscriptions visited and queries sent (history)
    mon_pc               \* position of start_continuous_monitoring

\* TravelAgent.plan_travel_with_weather (src/travel_agent.py)
VARIABLES
    travel_query,        \* the travel_query argument
    tr_pc,               \* position of the coroutine
    travel_context,      \* local travel_context
    tr_i,                \* number of destinations the loop has done
    weather_results,     \* local weather_results
    tr_result,           \* the dict returned
    tr_calls             \* the weather calls made and what they returned (history)

\* The weather server (src/weather.py): make_api_request and rate_limit
VARIABLES
    max_retries,         \* the max_retries argument
    retry_count,         \* local retry_count
    rq_pc,               \* position of make_api_request
    rq_log,              \* the attempts made and the waits, in order (history)
    rq_result,           \* the value returned
    request_counts,      \* request_counts["default"]: times of the admitted calls
    rl_now,              \* time.time(), in seconds
    rl_log               \* the tool calls: tool, time, admitted or not (history)

orchestrator_vars ==
    <<query, pc, task_type, locations, gathered_data, execution_log, response,
      loop_i, inflight, result, callLog, received, concurrent, source_outcomes>>

consensus_vars ==
    <<cw_location, cw_pc, cw_next, source_results, consensus, cw_result, cw_queried, cw_fetched>>

hub_vars ==
    <<hub_pc, hub_query, coordination_type, travel_agent, weather_orchestrator,
      hub_result, hub_invoked>>

alert_vars ==
    <<alert_subscriptions, alert_history, now, setups, chk_pc, chk_size, chk_i,
      chk_id, chk_locs, chk_j, triggered_alerts, chk_log, mon_pc>>

travel_vars ==
    <<travel_query, tr_pc, travel_context, tr_i, weather_results, tr_result, tr_calls>>

server_vars ==
    <<max_retries, retry_count, rq_pc, rq_log, rq_result, request_counts, rl_now, rl_log>>

vars ==
    <<orchestrator_vars, consensus_vars, hub_vars, alert_vars, travel_vars, server_vars>>

Calls == 1..NCalls

NoTask == "unassigned"

NoResponse == Response("none", None, <<>>, EmptyDict)

(***************************************************************************)
(* Queries: up to MaxWords words of Vocabulary, joined by single spaces.   *)
(***************************************************************************)
Vocabulary ==
    << <<"F","o","r","e","c","a","s","t">>,
       <<"w","e","e","k","e","n","d">>,
       <<"s","t","o","r","m","s">>,
       <<"C","o","m","p","a","r","e">>,
       <<"W","E","A","T","H","E","R">>,
       <<"s","n","o","w">>,
       <<"h","e","l","l","o">>,
       <<"R","o","m","e">>,
       <<"c","h","i","c","a","g","o">>,
       <<"N","e","w"," ","Y","o","r","k">>,
       <<"T","e","x","a","s">> >>

RECURSIVE Join(_)
Join(words) ==
    IF words = <<>> THEN <<>>
    ELSE IF Len(words) = 1 THEN words[1]
    ELSE words[1] \o <<" ">> \o Join(Tail(words))

Queries ==
    { Join([i \in 1..k |-> Vocabulary[w[i]]]) :
        k \in 0..MaxWords, w \in [1..MaxWords -> 1..Len(Vocabulary)] }

\* _classify_task and _extract_locations are pure: their values on the
\* queries of the model, as functions of the query.
TaskOf == [q \in Queries |-> _classify_task(q)]

LocationsOf == [q \in Queries |-> _extract_locations(q)]

(***************************************************************************)
(* process_query, one action per step; a call is suspended only while a    *)
(* source call is in flight.                                               *)
(***************************************************************************)
\* No get_consensus_weather call has been made.
NoConsensus == [source_count |-> 0]

ConsensusIdle ==
    /\ cw_location = <<>>
    /\ cw_pc = "Idle"
    /\ cw_next = 1
    /\ source_results = <<>>
    /\ consensus = NoConsensus
    /\ cw_result = NoResult
    /\ cw_queried = <<>>
    /\ cw_fetched = <<>>

\* No process_coordinated_query call has been made.
HubIdle ==
    /\ hub_pc = "Idle"
    /\ hub_query = <<>>
    /\ coordination_type = "auto"
    /\ travel_agent = TRUE
    /\ weather_orchestrator = TRUE
    /\ hub_result = NoResult
    /\ hub_invoked = <<>>

\* No plan_travel_with_weather call has been made.
NoContext == [destinations |-> <<>>, duration |-> 0]

TravelIdle ==
    /\ travel_query = <<>>
    /\ tr_pc = "Idle"
    /\ travel_context = NoContext
    /\ tr_i = 0
    /\ weather_results = <<>>
    /\ tr_result = [success |-> "none"]
    /\ tr_calls = <<>>

\* No request is being made and no tool has been called.
ServerIdle ==
    /\ max_retries = 0
    /\ retry_count = 0
    /\ rq_pc = "Idle"
    /\ rq_log = <<>>
    /\ rq_result = "pending"
    /\ request_counts = <<>>
    /\ rl_now = 0
    /\ rl_log = <<>>

\* A new AlertAgent; no check and no monitoring loop has been started.
AlertIdle ==
    /\ alert_subscriptions = <<>>
    /\ alert_history = <<>>
    /\ now = 0
    /\ setups = <<>>
    /\ chk_pc = "Idle"
    /\ chk_size = 0
    /\ chk_i = 0
    /\ chk_id = <<>>
    /\ chk_locs = <<>>
    /\ chk_j = 0
    /\ triggered_alerts = <<>>
    /\ chk_log = <<>>
    /\ mon_pc = "Off"

IdleFrames ==
    /\ task_type = [f \in Calls |-> NoTask]
    /\ locations = [f \in Calls |-> <<>>]
    /\ gathered_data = [f \in Calls |-> EmptyDict]
    /\ execution_log = [f \in Calls |-> <<>>]
    /\ response = [f \in Calls |-> NoResponse]
    /\ loop_i = [c \in Calls |-> 0]
    /\ inflight = [c \in Calls |-> NoCall]
    /\ result = [c \in Calls |-> NoResult]
    /\ callLog = [c \in Calls |-> <<>>]
    /\ received = [c \in Calls |-> <<>>]
    /\ concurrent = [c \in Calls |-> FALSE]

\* One call of process_query, with any query and any behaviour of the sources.
Init ==
    /\ \E q \in Queries : query = [c \in Calls |-> IF c = 1 THEN q ELSE <<>>]
    /\ pc = [c \in Calls |-> IF c = 1 THEN "Start" ELSE "Idle"]
    /\ source_outcomes = Outcomes
    /\ IdleFrames
    /\ ConsensusIdle
    /\ HubIdle
    /\ AlertIdle
    /\ TravelIdle
    /\ ServerIdle

\* History: when call c starts a source call while other calls are awaiting
\* theirs, c and those calls are in flight together.
MarkOverlap(c) ==
    IF \E d \in Calls \ {c} : pc[d] = "Gathering"
    THEN [x \in Calls |-> concurrent[x] \/ x = c \/ pc[x] = "Gathering"]
    ELSE concurrent

\* Step 1: classify the task.
Classify(c) ==
    /\ UNCHANGED <<consensus_vars, hub_vars, alert_vars, travel_vars, server_vars>>
    /\ pc[c] = "Start"
    /\ LET task == TaskOf[query[c]] IN
        /\ task_type' = [task_type EXCEPT ![Frame(c)] = task]
        /\ execution_log' =
              [execution_log EXCEPT ![Frame(c)] = <<LogEntry("classified", task, <<>>, 0)>>]
    /\ pc' = [pc EXCEPT ![c] = "Classified"]
    /\ UNCHANGED <<query, locations, gathered_data, response, loop_i, inflight,
                   result, callLog, received, concurrent, source_outcomes>>

\* Step 2: extract the locations.
ExtractLocations(c) ==
    /\ UNCHANGED <<consensus_vars, hub_vars, alert_vars, travel_vars, server_vars>>
    /\ pc[c] = "Classified"
    /\ LET locs == LocationsOf[query[c]] IN
        /\ locations' = [locations EXCEPT ![Frame(c)] = locs]
        /\ execution_log' =
              [execution_log EXCEPT ![Frame(c)] = Append(@, LogEntry("locations", "", locs, 0))]
    /\ pc' = [pc EXCEPT ![c] = "LocationsExtracted"]
    /\ UNCHANGED <<query, task_type, gathered_data, response, loop_i, inflight,
                   result, callLog, received, concurrent, source_outcomes>>

\* Step 3 up to its first await: gathered_data = {} and the branch on the
\* task type; a branch without a source call is completed here.
BeginGather(c) ==
    /\ UNCHANGED <<consensus_vars, hub_vars, alert_vars, travel_vars, server_vars>>
    /\ pc[c] = "LocationsExtracted"
    /\ LET f == Frame(c)
           calls == GatherCalls(task_type[f], locations[f])
       IN  IF calls # <<>>
           THEN /\ inflight' = [inflight EXCEPT ![c] = calls[1]]
                /\ callLog' = [callLog EXCEPT ![c] = Append(@, calls[1])]
                /\ loop_i' = [loop_i EXCEPT ![c] = 1]
                /\ gathered_data' = [gathered_data EXCEPT ![f] = EmptyDict]
                /\ pc' = [pc EXCEPT ![c] = Await]
                /\ concurrent' = MarkOverlap(c)
                /\ UNCHANGED execution_log
           ELSE /\ gathered_data' =
                    [gathered_data EXCEPT ![f] =
                        IF task_type[f] = FORECAST_ANALYSIS /\ locations[f] # <<>>
                        THEN DictSet(EmptyDict, KEY_forecast,
                                     ErrorDict("coordinates_not_available"))
                        ELSE EmptyDict]
                /\ execution_log' =
                    [execution_log EXCEPT ![f] =
                        @ \o GatheredEntry(task_type[f], locations[f], NoCall)]
                /\ pc' = [pc EXCEPT ![c] = "DataGathered"]
                /\ UNCHANGED <<inflight, callLog, loop_i, concurrent>>
    /\ UNCHANGED <<query, task_type, locations, response, result, received,
                   source_outcomes>>

\* The awaited source call returns: its value is stored under its key, and
\* the branch issues its next call or ends.
Receive(c) ==
    /\ UNCHANGED <<consensus_vars, hub_vars, alert_vars, travel_vars, server_vars>>
    /\ pc[c] = "Gathering"
    /\ inflight[c] # NoCall
    /\ \E outcome \in source_outcomes \cap ToolOutcomes(inflight[c].tool) :
        LET f == Frame(c)
            calls == GatherCalls(task_type[f], locations[f])
            data == DictSet(gathered_data[f], inflight[c].key, _call_tool(outcome))
        IN  /\ gathered_data' = [gathered_data EXCEPT ![f] = data]
            /\ received' = [received EXCEPT ![c] = Append(@, outcome)]
            /\ IF loop_i[c] < Len(calls)
               THEN /\ inflight' = [inflight EXCEPT ![c] = calls[loop_i[c] + 1]]
                    /\ callLog' = [callLog EXCEPT ![c] = Append(@, calls[loop_i[c] + 1])]
                    /\ loop_i' = [loop_i EXCEPT ![c] = @ + 1]
                    /\ UNCHANGED <<pc, execution_log>>
               ELSE /\ inflight' = [inflight EXCEPT ![c] = NoCall]
                    /\ execution_log' =
                        [execution_log EXCEPT ![f] =
                            @ \o GatheredEntry(task_type[f], locations[f], inflight[c])]
                    /\ pc' = [pc EXCEPT ![c] = "DataGathered"]
                    /\ UNCHANGED <<callLog, loop_i>>
    /\ UNCHANGED <<query, task_type, locations, response, result, concurrent,
                   source_outcomes>>

\* Step 4: format the response; an exception raised by the formatter is
\* handled by the except block, which returns the failure dict.
FormatResponse(c) ==
    /\ UNCHANGED <<consensus_vars, hub_vars, alert_vars, travel_vars, server_vars>>
    /\ pc[c] = "DataGathered"
    /\ LET f == Frame(c) IN
        IF FormatRaises(task_type[f], gathered_data[f], locations[f])
        THEN IF Catches("Exception")
             THEN LET log == Append(execution_log[f], LogEntry("error", "formatter_raised", <<>>, 0))
                  IN  /\ execution_log' = [execution_log EXCEPT ![f] = log]
                      /\ result' = [result EXCEPT ![c] = FailureResult("formatter_raised", log)]
                      /\ pc' = [pc EXCEPT ![c] = "Done"]
                      /\ UNCHANGED response
             ELSE /\ pc' = [pc EXCEPT ![c] = "Faulted"]
                  /\ UNCHANGED <<execution_log, result, response>>
        ELSE /\ response' =
                [response EXCEPT ![f] =
                    _format_response(task_type[f], gathered_data[f], locations[f])]
             /\ execution_log' =
                [execution_log EXCEPT ![f] = Append(@, LogEntry("response", "", <<>>, 0))]
             /\ pc' = [pc EXCEPT ![c] = "Responded"]
             /\ UNCHANGED result
    /\ UNCHANGED <<query, task_type, locations, gathered_data, loop_i, inflight,
                   callLog, received, concurrent, source_outcomes>>

\* The return of the try block.
Return(c) ==
    /\ UNCHANGED <<consensus_vars, hub_vars, alert_vars, travel_vars, server_vars>>
    /\ pc[c] = "Responded"
    /\ LET f == Frame(c) IN
        result' = [result EXCEPT ![c] =
                      SuccessResult(response[f], task_type[f], locations[f],
                                    execution_log[f], gathered_data[f])]
    /\ pc' = [pc EXCEPT ![c] = "Done"]
    /\ UNCHANGED <<query, task_type, locations, gathered_data, execution_log,
                   response, loop_i, inflight, callLog, received, concurrent,
                   source_outcomes>>

Next ==
    \E c \in Calls :
        \/ Classify(c)
        \/ ExtractLocations(c)
        \/ BeginGather(c)
        \/ Receive(c)
        \/ FormatResponse(c)
        \/ Return(c)

Spec == Init /\ [][Next]_vars

\* The event loop resumes every coroutine that can run, and every source
\* call returns (each carries a timeout).
CallStep(c) ==
    \/ Classify(c)
    \/ ExtractLocations(c)
    \/ BeginGather(c)
    \/ Receive(c)
    \/ FormatResponse(c)
    \/ Return(c)

FairSpec == Spec /\ \A c \in Calls : WF_vars(CallStep(c))

(***************************************************************************)
(* Concurrent calls: every call of Calls is started, and the calls         *)
(* interleave at their source calls.                                       *)
(***************************************************************************)
ConcQueries ==
    { <<"C","o","m","p","a","r","e"," ","R","o","m","e"," ","T","e","x","a","s">>,
      <<"W","E","A","T","H","E","R"," ","c","h","i","c","a","g","o">>,
      <<"s","t","o","r","m","s"," ","T","e","x","a","s">> }

ConcOutcomes == {"observation", "error_reply", "list"}

ConcInit ==
    /\ query \in [Calls -> ConcQueries]
    /\ pc = [c \in Calls |-> "Start"]
    /\ source_outcomes = ConcOutcomes
    /\ IdleFrames
    /\ ConsensusIdle
    /\ HubIdle
    /\ AlertIdle
    /\ TravelIdle
    /\ ServerIdle

ConcSpec == ConcInit /\ [][Next]_vars

(***************************************************************************)
(* Multi-source consensus: WeatherIntelligenceAgent                        *)
(* (src/weather_intelligence_agent.py).  Reliabilities are in hundredths,  *)
(* the temperature and humidity of the result in tenths and its confidence *)
(* score in hundredths; means and variances are exact fractions.           *)
(***************************************************************************)
NWS == "nws"
WTTR == "wttr"
EXISTING_MCP == "mcp"

\* self.data_sources, in insertion order.
data_sources == <<NWS, WTTR, EXISTING_MCP>>

\* self.source_reliability, in hundredths.
source_reliability == (NWS :> 90) @@ (WTTR :> 80) @@ (EXISTING_MCP :> 85)

\* Mutant: reliability * 10 is rounded up.
WeightRoundedUp(source) == (source_reliability[source] * 10 + 99) \div 100

\* weight = int(reliability * 10): the fraction is cut off.
Weight(source) == (source_reliability[source] * 10) \div 100

\* What the sources report.
Temperatures == {60, 72, 74, 90}
Humidities == {40, 65}
ConditionTexts == {"Clear", "Rain"}

SourceData(temperature, humidity, conditions, source) ==
    [temperature |-> temperature, humidity |-> humidity,
     conditions |-> conditions, source |-> source]

Fetched(data) == [kind |-> "data", data |-> data]
FetchedNone == [kind |-> "none"]
FetchRaised == [kind |-> "raise"]

\* _fetch_nws_data: None when a request fails or a field is missing, the
\* first forecast period with humidity 50 otherwise; a reply of another
\* shape raises.
_fetch_nws_data ==
    {FetchedNone, FetchRaised}
    \cup {Fetched(SourceData(t, 50, c, "NWS")) : t \in Temperatures, c \in ConditionTexts}

\* _fetch_wttr_data: None without current_condition; int() of a field that
\* is not a number raises.
_fetch_wttr_data ==
    {FetchedNone, FetchRaised}
    \cup {Fetched(SourceData(t, h, c, "WTTR")) :
            t \in Temperatures, h \in Humidities, c \in ConditionTexts}

\* _fetch_mcp_data: every exception is handled inside and gives None; the
\* temperature is the one found in the text or 70, the humidity 55 and the
\* conditions "Partly Cloudy".
_fetch_mcp_data ==
    {FetchedNone}
    \cup {Fetched(SourceData(t, 55, "Partly Cloudy", "MCP")) : t \in Temperatures \cup {70}}

FetchOutcomes(source) ==
    CASE source = NWS -> _fetch_nws_data
      [] source = WTTR -> _fetch_wttr_data
      [] source = EXISTING_MCP -> _fetch_mcp_data

\* temperatures.extend([temp] * weight) over source_results.items().
RECURSIVE Replicated(_, _)
Replicated(results, field) ==
    IF results = <<>> THEN <<>>
    ELSE [i \in 1..Weight(Head(results)[1]) |-> Head(results)[2][field]]
         \o Replicated(Tail(results), field)

RECURSIVE Sum(_)
Sum(xs) == IF xs = <<>> THEN 0 ELSE Head(xs) + Sum(Tail(xs))

\* statistics.mean, as a fraction.
Mean(xs) == [num |-> Sum(xs), den |-> Len(xs)]

\* Mutant: the population variance.
PopulationVariance(xs) ==
    LET n == Len(xs)
        squares == [i \in 1..n |-> xs[i] * xs[i]]
    IN  [num |-> n * Sum(squares) - Sum(xs) * Sum(xs), den |-> n * n]

\* statistics.variance (the sample variance) of two or more values, as a
\* fraction.
Variance(xs) ==
    LET n == Len(xs)
        squares == [i \in 1..n |-> xs[i] * xs[i]]
    IN  [num |-> n * Sum(squares) - Sum(xs) * Sum(xs), den |-> n * (n - 1)]

\* The integer nearest to num / den, a tie going to the even one (round()).
RoundHalfEven(num, den) ==
    LET q == num \div den
        r == num % den
    IN  IF 2 * r < den THEN q
        ELSE IF 2 * r > den THEN q + 1
        ELSE IF q % 2 = 0 THEN q ELSE q + 1

\* round(x, ndigits), in units of 1 / scale with scale = 10^ndigits.
Round(x, scale) == RoundHalfEven(x.num * scale, x.den)

\* temp_variance: 0 for fewer than two temperatures.
TempVariance(temperatures) ==
    IF Len(temperatures) > 1 THEN Variance(temperatures) ELSE [num |-> 0, den |-> 1]

\* Mutant: the confidence has no floor.
ConfidenceNoFloor(temperatures) ==
    LET v == TempVariance(temperatures)
    IN  [num |-> 100 * v.den - v.num, den |-> 100 * v.den]

\* confidence = max(0.5, 1.0 - (temp_variance / 100.0)), as a fraction.
Confidence(temperatures) ==
    LET v == TempVariance(temperatures)
    IN  IF v.num >= 50 * v.den THEN [num |-> 1, den |-> 2]
        ELSE [num |-> 100 * v.den - v.num, den |-> 100 * v.den]

\* conditions.count(x)
Count(xs, x) == Cardinality({i \in 1..Len(xs) : xs[i] = x})

\* max(set(conditions), key=conditions.count): max returns the first
\* element of the largest count in the iteration order of the set, and the
\* iteration order of a set of strings is arbitrary (it changes with the
\* hash seed of the process), so any element of the largest count may be
\* returned.
MostCommon(conditions) ==
    LET values == {conditions[i] : i \in 1..Len(conditions)}
    IN  {x \in values : \A y \in values : Count(conditions, y) <= Count(conditions, x)}

\* Mutant: every configured source is counted.
SourceCountConfigured(results) == Len(data_sources)

\* source_count = len(source_results)
SourceCount(results) == Len(results)

\* _create_consensus; consensus_conditions is the element max() returned.
_create_consensus(results, consensus_conditions) ==
    LET temperatures == Replicated(results, "temperature")
        humidities == Replicated(results, "humidity")
    IN  [temperature |-> IF temperatures # <<>> THEN Round(Mean(temperatures), 10) ELSE 700,
         humidity |-> IF humidities # <<>> THEN Round(Mean(humidities), 10) ELSE 500,
         conditions |-> consensus_conditions,
         confidence_score |-> Round(Confidence(temperatures), 100),
         source_count |-> SourceCount(results),
         data_sources |-> [i \in 1..Len(results) |-> results[i][2].source]]

\* max(temps) - min(temps) of the unreplicated temperatures.
TempRange(results) ==
    LET temps == {results[i][2].temperature : i \in 1..Len(results)}
    IN  (CHOOSE hi \in temps : \A t \in temps : t <= hi)
        - (CHOOSE lo \in temps : \A t \in temps : lo <= t)

\* _generate_intelligence_report: the lines that depend on the data.
_generate_intelligence_report(cons, results) ==
    [quality |-> IF cons.confidence_score > 80 THEN "high"
                 ELSE IF cons.confidence_score > 60 THEN "medium"
                 ELSE "lower",
     variation |-> Len(results) > 1 /\ TempRange(results) > 10]

\* Mutant: the consensus is computed whatever was collected.
NoDataNever(results) == FALSE

\* `if not source_results`
NoData(results) == results = <<>>

ConsensusLocations ==
    { <<"R","o","m","e">>,
      <<"S","a","n"," ","F","r","a","n","c","i","s","c","o">> }

\* The loop body of get_consensus_weather for one source: the data is kept
\* when the fetch returned data; a fetch that returned None or raised is
\* reported and the loop goes on.
QuerySource ==
    /\ cw_pc = "Querying"
    /\ cw_next <= Len(data_sources)
    /\ LET source == data_sources[cw_next] IN
       \E outcome \in FetchOutcomes(source) :
        /\ source_results' =
              IF outcome.kind = "data"
              THEN Append(source_results, <<source, outcome.data>>)
              ELSE source_results
        /\ cw_queried' = Append(cw_queried, source)
        /\ cw_fetched' = Append(cw_fetched, outcome)
    /\ cw_next' = cw_next + 1
    /\ cw_pc' = IF cw_next = Len(data_sources) THEN "Queried" ELSE "Querying"
    /\ UNCHANGED <<cw_location, consensus, cw_result>>
    /\ UNCHANGED <<orchestrator_vars, hub_vars, alert_vars, travel_vars, server_vars>>

\* No source returned data: the failure dict is returned.
ReturnNoData ==
    /\ cw_pc = "Queried"
    /\ NoData(source_results)
    /\ cw_result' = [success |-> FALSE, error |-> "No weather data sources available"]
    /\ cw_pc' = "Done"
    /\ UNCHANGED <<cw_location, cw_next, source_results, consensus, cw_queried, cw_fetched>>
    /\ UNCHANGED <<orchestrator_vars, hub_vars, alert_vars, travel_vars, server_vars>>

\* consensus = await self._create_consensus(source_results, location)
CreateConsensus ==
    /\ cw_pc = "Queried"
    /\ ~NoData(source_results)
    /\ LET conditions == [i \in 1..Len(source_results) |-> source_results[i][2].conditions]
       IN  \E consensus_conditions \in
                IF conditions = <<>> THEN {"Unknown"} ELSE MostCommon(conditions) :
             consensus' = _create_consensus(source_results, consensus_conditions)
    /\ cw_pc' = "Consensus"
    /\ UNCHANGED <<cw_location, cw_next, source_results, cw_result, cw_queried, cw_fetched>>
    /\ UNCHANGED <<orchestrator_vars, hub_vars, alert_vars, travel_vars, server_vars>>

\* The report and the success dict.
ReturnConsensus ==
    /\ cw_pc = "Consensus"
    /\ cw_result' =
          [success |-> TRUE,
           location |-> cw_location,
           consensus |-> consensus,
           intelligence_report |-> _generate_intelligence_report(consensus, source_results),
           sources_used |-> Len(source_results),
           reliability_score |-> consensus.confidence_score]
    /\ cw_pc' = "Done"
    /\ UNCHANGED <<cw_location, cw_next, source_results, consensus, cw_queried, cw_fetched>>
    /\ UNCHANGED <<orchestrator_vars, hub_vars, alert_vars, travel_vars, server_vars>>

\* One call of get_consensus_weather, with any behaviour of the sources.
ConsensusInit ==
    /\ cw_location \in ConsensusLocations
    /\ cw_pc = "Querying"
    /\ cw_next = 1
    /\ source_results = <<>>
    /\ consensus = NoConsensus
    /\ cw_result = NoResult
    /\ cw_queried = <<>>
    /\ cw_fetched = <<>>
    /\ query = [c \in Calls |-> <<>>]
    /\ pc = [c \in Calls |-> "Idle"]
    /\ source_outcomes = Outcomes
    /\ IdleFrames
    /\ HubIdle
    /\ AlertIdle
    /\ TravelIdle
    /\ ServerIdle

ConsensusNext ==
    \/ QuerySource
    \/ ReturnNoData
    \/ CreateConsensus
    \/ ReturnConsensus

ConsensusSpec == ConsensusInit /\ [][ConsensusNext]_vars

(***************************************************************************)
(* Coordination hub: AgentCoordinationHub.process_coordinated_query        *)
(* (src/agent_coordination_hub.py).  The agents it delegates to are taken  *)
(* by what a call of them can return.                                      *)
(***************************************************************************)
travel_words ==
    << <<"t","r","a","v","e","l">>,
       <<"t","r","i","p">>,
       <<"v","a","c","a","t","i","o","n">>,
       <<"v","i","s","i","t">>,
       <<"i","t","i","n","e","r","a","r","y">> >>

monitor_words ==
    << <<"a","l","e","r","t">>,
       <<"m","o","n","i","t","o","r">>,
       <<"n","o","t","i","f","y">>,
       <<"w","a","r","n","i","n","g">>,
       <<"t","r","a","c","k">> >>

intelligence_words ==
    << <<"c","o","m","p","a","r","e"," ","s","o","u","r","c","e","s">>,
       <<"a","c","c","u","r","a","t","e">>,
       <<"r","e","l","i","a","b","l","e">>,
       <<"c","o","n","s","e","n","s","u","s">>,
       <<"m","u","l","t","i","p","l","e"," ","s","o","u","r","c","e","s">> >>

\* Mutant: the alert keywords are tested before the travel keywords.
strategy_alerts_first(q) ==
    LET query_lower == Lower(q) IN
    IF AnyWordIn(monitor_words, query_lower) THEN "alerts"
    ELSE IF AnyWordIn(travel_words, query_lower) THEN "travel"
    ELSE IF AnyWordIn(intelligence_words, query_lower) THEN "intelligence"
    ELSE "weather"

\* AgentCoordinationHub._determine_coordination_strategy
_determine_coordination_strategy(q) ==
    LET query_lower == Lower(q) IN
    IF AnyWordIn(travel_words, query_lower) THEN "travel"
    ELSE IF AnyWordIn(monitor_words, query_lower) THEN "alerts"
    ELSE IF AnyWordIn(intelligence_words, query_lower) THEN "intelligence"
    ELSE "weather"

\* The keys of self.agent_routes.
agent_routes == {"travel", "alerts", "intelligence", "weather"}

\* TravelAgent.plan_travel_with_weather returns a success dict, or the
\* failure dict of its except block.
plan_travel_with_weather == {"ok", "failed"}

\* get_consensus_weather returns the success dict, or the failure dict when
\* no source returned data.
get_consensus_weather == {"ok", "failed"}

\* WeatherOrchestrator.process_query returns the failure dict of its except
\* block.  A failure of the LLM in _extract_locations gives an error that
\* mentions the model ("model 'llama3' not found") or does not (a refused
\* connection); a run that reaches _analyze_and_respond reads
\* context_data["alert"], a key the dict does not have, and fails with the
\* error "'alert'".  The success dict is never reached.
graph_process_query == {"model_error", "other_error"}

\* SimpleOrchestrator.process_query returns the success dict or the failure
\* dict.
simple_process_query == {"ok", "failed"}

\* The dict a route returns; `error` says whether it has an "error" key.
RouteResult(success, type, agents) ==
    [success |-> success, error |-> ~success, coordination_type |-> type,
     agents |-> agents]

\* Mutant: the metadata is added to successful results only.
TaggedIfSuccessful(r, used) ==
    IF r.success
    THEN [success |-> r.success, error |-> r.error,
          coordination_type |-> r.coordination_type, agents |-> r.agents,
          coordination_used |-> used, timestamp |-> TRUE]
    ELSE r

\* Step 3: result["coordination_used"] and result["timestamp"] are set.
Tagged(r, used) ==
    [success |-> r.success, error |-> r.error,
     coordination_type |-> r.coordination_type, agents |-> r.agents,
     coordination_used |-> used, timestamp |-> TRUE]

\* `"setup" in query.lower() or "monitor" in query.lower()`
IsAlertSetup(q) ==
    \/ Contains(Lower(q), <<"s","e","t","u","p">>)
    \/ Contains(Lower(q), <<"m","o","n","i","t","o","r">>)

HubVocabulary ==
    << <<"T","r","i","p">>,
       <<"a","i","r","s","t","r","i","p","s">>,
       <<"a","l","e","r","t">>,
       <<"m","o","n","i","t","o","r">>,
       <<"c","o","n","s","e","n","s","u","s">>,
       <<"R","o","m","e">> >>

HubQueries ==
    { Join([i \in 1..k |-> HubVocabulary[w[i]]]) :
        k \in 0..MaxWords, w \in [1..MaxWords -> 1..Len(HubVocabulary)] }

\* The coordination_type argument: the default, a key of agent_routes, and
\* a name that is no key.
CoordinationArgs == {"auto", "alerts", "forecast"}

\* Step 1: the strategy is determined when the argument is "auto".
DetermineStrategy ==
    /\ hub_pc = "Start"
    /\ coordination_type' =
          IF coordination_type = "auto"
          THEN _determine_coordination_strategy(hub_query)
          ELSE coordination_type
    /\ hub_pc' = "Routing"
    /\ UNCHANGED <<hub_query, travel_agent, weather_orchestrator, hub_result, hub_invoked>>
    /\ UNCHANGED <<orchestrator_vars, consensus_vars, alert_vars, travel_vars, server_vars>>

\* The route has returned `r`.
Routed(route, r) ==
    /\ hub_result' = r
    /\ hub_invoked' = Append(hub_invoked, route)
    /\ hub_pc' = "Routed"
    /\ UNCHANGED <<hub_query, coordination_type, travel_agent, weather_orchestrator>>
    /\ UNCHANGED <<orchestrator_vars, consensus_vars, alert_vars, travel_vars, server_vars>>

\* _route_to_travel_agent
RouteToTravelAgent ==
    /\ hub_pc = "Routing"
    /\ coordination_type = "travel"
    /\ IF ~travel_agent
       THEN Routed("travel", RouteResult(FALSE, "travel_unavailable", <<>>))
       ELSE \E reply \in plan_travel_with_weather :
                Routed("travel", RouteResult(reply = "ok", "travel_weather", <<"travel_agent">>))

\* _route_to_alert_agent: a setup or a check, both of which return success.
RouteToAlertAgent ==
    /\ hub_pc = "Routing"
    /\ coordination_type = "alerts"
    /\ IF IsAlertSetup(hub_query)
       THEN Routed("alerts", RouteResult(TRUE, "alert_setup", <<"alert_agent">>))
       ELSE Routed("alerts", RouteResult(TRUE, "alert_check", <<"alert_agent">>))

\* _route_to_intelligence_agent
RouteToIntelligenceAgent ==
    /\ hub_pc = "Routing"
    /\ coordination_type = "intelligence"
    /\ \E reply \in get_consensus_weather :
          Routed("intelligence",
                 RouteResult(reply = "ok", "multi_source_intelligence",
                             <<"intelligence_agent">>))

\* _route_to_weather_agent: the graph engine when there is one, the simple
\* orchestrator when there is none or the graph engine reports a model error.
RouteToWeatherAgent ==
    /\ hub_pc = "Routing"
    /\ coordination_type = "weather"
    /\ IF weather_orchestrator
       THEN \E reply \in graph_process_query :
              IF reply = "model_error"
              THEN \E second \in simple_process_query :
                      Routed("weather",
                             RouteResult(second = "ok", "simple_weather_agent",
                                         <<"weather_orchestrator", "simple_orchestrator">>))
              ELSE Routed("weather",
                          RouteResult(reply = "ok", "single_weather_agent",
                                      <<"weather_orchestrator">>))
       ELSE \E reply \in simple_process_query :
              Routed("weather",
                     RouteResult(reply = "ok", "simple_weather_agent",
                                 <<"simple_orchestrator">>))

\* A coordination_type that is no key of agent_routes: the graph engine is
\* called; without one, None.process_query raises AttributeError, which
\* nothing handles.
RouteFallback ==
    /\ hub_pc = "Routing"
    /\ coordination_type \notin agent_routes
    /\ IF weather_orchestrator
       THEN \E reply \in graph_process_query :
              Routed("fallback",
                     RouteResult(reply = "ok", "single_agent", <<"weather_orchestrator">>))
       ELSE /\ hub_pc' = "Faulted"
            /\ hub_invoked' = Append(hub_invoked, "fallback")
            /\ UNCHANGED <<hub_query, coordination_type, travel_agent,
                           weather_orchestrator, hub_result>>
            /\ UNCHANGED <<orchestrator_vars, consensus_vars, alert_vars, travel_vars, server_vars>>

\* Step 3 and the return.
HubReturn ==
    /\ hub_pc = "Routed"
    /\ hub_result' = Tagged(hub_result, coordination_type)
    /\ hub_pc' = "Done"
    /\ UNCHANGED <<hub_query, coordination_type, travel_agent, weather_orchestrator,
                   hub_invoked>>
    /\ UNCHANGED <<orchestrator_vars, consensus_vars, alert_vars, travel_vars, server_vars>>

\* One call of process_coordinated_query, with any query, with or without
\* the optional agents, and any behaviour of the agents.
HubInit ==
    /\ hub_pc = "Start"
    /\ hub_query \in HubQueries
    /\ coordination_type \in CoordinationArgs
    /\ travel_agent \in BOOLEAN
    /\ weather_orchestrator \in BOOLEAN
    /\ hub_result = NoResult
    /\ hub_invoked = <<>>
    /\ query = [c \in Calls |-> <<>>]
    /\ pc = [c \in Calls |-> "Idle"]
    /\ source_outcomes = Outcomes
    /\ IdleFrames
    /\ ConsensusIdle
    /\ AlertIdle
    /\ TravelIdle
    /\ ServerIdle

HubNext ==
    \/ DetermineStrategy
    \/ RouteToTravelAgent
    \/ RouteToAlertAgent
    \/ RouteToIntelligenceAgent
    \/ RouteToWeatherAgent
    \/ RouteFallback
    \/ HubReturn

HubSpec == HubInit /\ [][HubNext]_vars

(***************************************************************************)
(* Alert subscriptions: AlertAgent and AlertCoordinator                    *)
(* (src/smart_alert_agent.py).  The coroutines are suspended only while a  *)
(* query to the weather orchestrator, or a sleep, is awaited; what runs    *)
(* between two suspensions is one step.                                    *)
(***************************************************************************)
MaxSetups == 2
MaxClock == 1
MaxHistory == 1

LOW == "low"
MEDIUM == "medium"
HIGH == "high"

TEXAS == <<"T","e","x","a","s">>
MIAMI == <<"M","i","a","m","i">>

\* dict.get(key, default)
Get(d, key, default) == IF key \in DOMAIN d THEN d[key] ELSE default

\* The user_config arguments: keys may be absent.
UserConfigs ==
    { [locations |-> <<TEXAS>>, alert_types |-> <<"severe_weather">>,
       thresholds |-> [wind_speed |-> 25]],
      [locations |-> <<MIAMI, TEXAS>>],
      [alert_types |-> <<"travel_disruption">>] }

\* The response texts the weather orchestrator may return.
STORM_TEXT == <<"s","e","v","e","r","e"," ","s","t","o","r","m"," ","w","a","r","n","i","n","g">>
STORM_DELAY_TEXT == <<"s","e","v","e","r","e"," ","s","t","o","r","m"," ","w","a","r","n","i","n","g",":"," ","F","l","i","g","h","t"," ","d","e","l","a","y","s">>
CLEAR_TEXT == <<"C","l","e","a","r"," ","s","k","i","e","s">>

ResponseTexts == {STORM_TEXT, STORM_DELAY_TEXT, CLEAR_TEXT}

\* What process_query returns to the check: its failure dict, or its success
\* dict with a response text.
WeatherResults ==
    {[success |-> FALSE]} \cup {[success |-> TRUE, response |-> t] : t \in ResponseTexts}

severe_terms ==
    << <<"s","t","o","r","m">>,
       <<"h","u","r","r","i","c","a","n","e">>,
       <<"t","o","r","n","a","d","o">>,
       <<"s","e","v","e","r","e">>,
       <<"w","a","r","n","i","n","g">> >>

travel_terms ==
    << <<"f","l","i","g","h","t">>,
       <<"d","e","l","a","y">>,
       <<"c","a","n","c","e","l">>,
       <<"c","l","o","s","u","r","e">> >>

SEVERE_WEATHER == "Severe weather detected"
EXTREME_TEMPERATURE == "Extreme temperature conditions"
TRAVEL_DISRUPTION == "Potential travel disruptions"

\* The three checks of _analyze_for_alerts, in order, on the lowered text:
\* each appends its condition and assigns the severity.
Analysis(text) ==
    LET response_text == Lower(text)
        severe == AnyWordIn(severe_terms, response_text)
        extreme == \/ Contains(response_text, <<"e","x","t","r","e","m","e">>)
                   \/ Contains(response_text, <<"r","e","c","o","r","d">>)
        travel == AnyWordIn(travel_terms, response_text)
        s1 == IF severe THEN HIGH ELSE LOW
        s2 == IF extreme THEN MEDIUM ELSE s1
        s3 == IF travel THEN MEDIUM ELSE s2
    IN  [alert_conditions |->
            (IF severe THEN <<SEVERE_WEATHER>> ELSE <<>>)
            \o (IF extreme THEN <<EXTREME_TEMPERATURE>> ELSE <<>>)
            \o (IF travel THEN <<TRAVEL_DISRUPTION>> ELSE <<>>),
         severity |-> s3]

AnalysisOf == [t \in ResponseTexts |-> Analysis(t)]

\* AlertAgent._analyze_for_alerts: the alert, or None.
_analyze_for_alerts(location, weather_data, alert_id, time) ==
    LET a == AnalysisOf[weather_data.response] IN
    IF a.alert_conditions # <<>>
    THEN [alert_id |-> <<alert_id, location, time>>,
          location |-> location,
          severity |-> a.severity,
          conditions |-> a.alert_conditions,
          weather_summary |-> weather_data.response,
          timestamp |-> time,
          subscription_id |-> alert_id]
    ELSE None

\* The weather_query of check_alerts_for_all_subscriptions.
weather_query(location) ==
    <<"C","u","r","r","e","n","t"," ","w","e","a","t","h","e","r"," ","c","o","n","d","i","t","i","o","n","s"," ","a","n","d"," ","a","n","y"," ","a","l","e","r","t","s"," ","f","o","r"," ">> \o location

\* The index of key `id` in the dict, or 0.
IndexOf(subs, id) ==
    IF \E k \in 1..Len(subs) : subs[k].id = id
    THEN CHOOSE k \in 1..Len(subs) : subs[k].id = id
    ELSE 0

\* self.alert_subscriptions[alert_id] = config: a new key is added at the
\* end, the value of a key already there is replaced in place.
DictStore(subs, id, config) ==
    IF IndexOf(subs, id) = 0
    THEN Append(subs, [id |-> id, config |-> config])
    ELSE [subs EXCEPT ![IndexOf(subs, id)] = [id |-> id, config |-> config]]

\* alert_id = f"alert_{datetime.now().strftime('%Y%m%d_%H%M%S')}": the clock
\* to the second.
AlertId(time) == <<"alert", time>>

\* The subscription setup_smart_alerts stores.
Subscription(user_config, time) ==
    [locations |-> Get(user_config, "locations", <<>>),
     alert_types |-> Get(user_config, "alert_types",
                         <<"severe_weather", "temperature_extreme">>),
     thresholds |-> Get(user_config, "thresholds", <<>>),
     notification_preferences |-> Get(user_config, "notifications", [email |-> TRUE]),
     created_at |-> time,
     active |-> TRUE]

\* Mutant: the alert is not appended to the history.
HistoryUntouched(history, alert) == history

\* self.alert_history.append(alert); of a history longer than MaxHistory the
\* first MaxHistory alerts are kept track of.
HistoryAppend(history, alert) ==
    IF Len(history) < MaxHistory THEN Append(history, alert) ELSE history

\* Mutant: a subscription is checked whether it is active or not.
IsSkippedNever(config) == FALSE

\* `if not config["active"]: continue`
IsSkipped(config) == ~config.active

\* check_alerts_for_all_subscriptions from a point where it is not suspended
\* to its next suspension, its return or its failure: the inner loop goes
\* on to its next location; when it has none the outer loop goes on to the
\* next subscription, which raises RuntimeError when the dict has changed
\* size since the iterator was made.
RECURSIVE Advance(_, _, _, _, _, _, _)
Advance(subs, size, i, id, locs, j, log) ==
    IF j < Len(locs)
    THEN [pc |-> "Awaiting", i |-> i, id |-> id, locs |-> locs, j |-> j + 1,
          log |-> Append(log, [event |-> "query", id |-> id, location |-> locs[j + 1],
                               text |-> weather_query(locs[j + 1])])]
    ELSE IF Len(subs) # size
    THEN [pc |-> "Raised", i |-> i, id |-> id, locs |-> locs, j |-> j, log |-> log]
    ELSE IF i >= Len(subs)
    THEN [pc |-> "Done", i |-> i, id |-> id, locs |-> locs, j |-> j, log |-> log]
    ELSE LET alert_id == subs[i + 1].id
             config == subs[i + 1].config
             seen == Append(log, [event |-> "visit", id |-> alert_id,
                                  active |-> config.active,
                                  locations |-> config.locations])
         IN  IF IsSkipped(config)
             THEN Advance(subs, size, i + 1, alert_id, <<>>, 0, seen)
             ELSE Advance(subs, size, i + 1, alert_id, config.locations, 0, seen)

\* Mutant: the loop has no except block, a pass that raises ends the loop.
MonitorAfterUncaught(check_pc) ==
    IF mon_pc = "Off" THEN "Off"
    ELSE IF check_pc = "Done" THEN "Sleeping"
    ELSE IF check_pc = "Raised" THEN "Stopped"
    ELSE "Checking"

\* The position of the monitoring loop after a step of its check: asleep
\* for the interval after a pass, asleep for a minute after a pass that
\* raised.
MonitorAfter(check_pc) ==
    IF mon_pc = "Off" THEN "Off"
    ELSE IF check_pc = "Done" THEN "Sleeping"
    ELSE IF check_pc = "Raised" THEN "Retrying"
    ELSE "Checking"

\* The check takes the position `a`.
CheckAt(a) ==
    /\ chk_pc' = a.pc
    /\ chk_i' = a.i
    /\ chk_id' = a.id
    /\ chk_locs' = a.locs
    /\ chk_j' = a.j
    /\ chk_log' = a.log
    /\ mon_pc' = MonitorAfter(a.pc)

\* setup_smart_alerts(user_config)
SetupSmartAlerts(user_config) ==
    /\ Len(setups) < MaxSetups
    /\ alert_subscriptions' =
          DictStore(alert_subscriptions, AlertId(now), Subscription(user_config, now))
    /\ setups' = Append(setups, [alert_id |-> AlertId(now),
                                 config |-> Subscription(user_config, now)])
    /\ UNCHANGED <<alert_history, now, chk_pc, chk_size, chk_i, chk_id, chk_locs, chk_j,
                   triggered_alerts, chk_log, mon_pc>>
    /\ UNCHANGED <<orchestrator_vars, consensus_vars, hub_vars, travel_vars, server_vars>>

\* A second passes.
Tick ==
    /\ now < MaxClock
    /\ now' = now + 1
    /\ UNCHANGED <<alert_subscriptions, alert_history, setups, chk_pc, chk_size, chk_i,
                   chk_id, chk_locs, chk_j, triggered_alerts, chk_log, mon_pc>>
    /\ UNCHANGED <<orchestrator_vars, consensus_vars, hub_vars, travel_vars, server_vars>>

\* The explicit flag flip: the holder of the agent sets config["active"] of
\* a subscription to False.
Deactivate(k) ==
    /\ k \in 1..Len(alert_subscriptions)
    /\ alert_subscriptions[k].config.active
    /\ alert_subscriptions' = [alert_subscriptions EXCEPT ![k].config.active = FALSE]
    /\ UNCHANGED <<alert_history, now, setups, chk_pc, chk_size, chk_i, chk_id, chk_locs,
                   chk_j, triggered_alerts, chk_log, mon_pc>>
    /\ UNCHANGED <<orchestrator_vars, consensus_vars, hub_vars, travel_vars, server_vars>>

\* check_alerts_for_all_subscriptions() is called, outside the monitoring
\* loop, while no other check is in progress.
CallCheck ==
    /\ mon_pc = "Off"
    /\ chk_pc \in {"Idle", "Done", "Raised"}
    /\ chk_pc' = "Start"
    /\ UNCHANGED <<alert_subscriptions, alert_history, now, setups, chk_size, chk_i, chk_id,
                   chk_locs, chk_j, triggered_alerts, chk_log, mon_pc>>
    /\ UNCHANGED <<orchestrator_vars, consensus_vars, hub_vars, travel_vars, server_vars>>

\* The check runs from its entry to its first query, or to its end.
BeginCheck ==
    /\ chk_pc = "Start"
    /\ triggered_alerts' = <<>>
    /\ chk_size' = Len(alert_subscriptions)
    /\ CheckAt(Advance(alert_subscriptions, Len(alert_subscriptions), 0, <<>>, <<>>, 0, <<>>))
    /\ UNCHANGED <<alert_subscriptions, alert_history, now, setups>>
    /\ UNCHANGED <<orchestrator_vars, consensus_vars, hub_vars, travel_vars, server_vars>>

\* process_query returns weather_result: a successful result is analyzed and
\* its alert, if any, is appended to triggered_alerts and to the history;
\* then the check runs to its next query, or to its end.
ReceiveWeather ==
    /\ chk_pc = "Awaiting"
    /\ \E weather_result \in WeatherResults :
          LET alert == IF weather_result.success
                       THEN _analyze_for_alerts(chk_locs[chk_j], weather_result, chk_id, now)
                       ELSE None
          IN  /\ triggered_alerts' = IF alert # None THEN Append(triggered_alerts, alert)
                                     ELSE triggered_alerts
              /\ alert_history' = IF alert # None THEN HistoryAppend(alert_history, alert)
                                  ELSE alert_history
              /\ CheckAt(Advance(alert_subscriptions, chk_size, chk_i, chk_id, chk_locs,
                                 chk_j,
                                 Append(chk_log, [event |-> "reply", id |-> chk_id,
                                                  location |-> chk_locs[chk_j],
                                                  result |-> weather_result])))
    /\ UNCHANGED <<alert_subscriptions, now, setups, chk_size>>
    /\ UNCHANGED <<orchestrator_vars, consensus_vars, hub_vars, travel_vars, server_vars>>

\* start_continuous_monitoring() is called: the loop starts its first pass.
StartMonitoring ==
    /\ mon_pc = "Off"
    /\ chk_pc \in {"Idle", "Done", "Raised"}
    /\ mon_pc' = "Checking"
    /\ chk_pc' = "Start"
    /\ UNCHANGED <<alert_subscriptions, alert_history, now, setups, chk_size, chk_i, chk_id,
                   chk_locs, chk_j, triggered_alerts, chk_log>>
    /\ UNCHANGED <<orchestrator_vars, consensus_vars, hub_vars, travel_vars, server_vars>>

\* asyncio.sleep returns, in the try block or in the except block, and the
\* loop starts its next pass.
Wake ==
    /\ mon_pc \in {"Sleeping", "Retrying"}
    /\ mon_pc' = "Checking"
    /\ chk_pc' = "Start"
    /\ UNCHANGED <<alert_subscriptions, alert_history, now, setups, chk_size, chk_i, chk_id,
                   chk_locs, chk_j, triggered_alerts, chk_log>>
    /\ UNCHANGED <<orchestrator_vars, consensus_vars, hub_vars, travel_vars, server_vars>>

\* The other components are idle.
OthersIdle ==
    /\ query = [c \in Calls |-> <<>>]
    /\ pc = [c \in Calls |-> "Idle"]
    /\ source_outcomes = Outcomes
    /\ IdleFrames
    /\ ConsensusIdle
    /\ HubIdle
    /\ ServerIdle

AlertInit == AlertIdle /\ OthersIdle /\ TravelIdle

\* Setup calls, flag flips and checks on one AlertAgent, in any order; a
\* setup or a flag flip may come while a check is suspended.
AlertNext ==
    \/ \E user_config \in UserConfigs : SetupSmartAlerts(user_config)
    \/ Tick
    \/ \E k \in 1..MaxSetups : Deactivate(k)
    \/ CallCheck
    \/ BeginCheck
    \/ ReceiveWeather

AlertSpec == AlertInit /\ [][AlertNext]_vars

\* The monitoring loop of an AlertCoordinator, with setup calls coming while
\* it runs.
MonitorNext ==
    \/ \E user_config \in UserConfigs : SetupSmartAlerts(user_config)
    \/ Tick
    \/ StartMonitoring
    \/ BeginCheck
    \/ ReceiveWeather
    \/ Wake

\* The steps of the monitoring loop.
MonitorStep == StartMonitoring \/ BeginCheck \/ ReceiveWeather \/ Wake

\* The loop is scheduled whenever it can run: a sleep ends and a query to
\* the orchestrator, which bounds its source calls by timeouts, returns.
MonitorSpec == AlertInit /\ [][MonitorNext]_vars /\ WF_vars(MonitorStep)

(***************************************************************************)
(* The alert route of the hub on its AlertAgent                            *)
(* (AgentCoordinationHub._route_to_alert_agent), with setup calls made on  *)
(* the same agent by other tasks.                                          *)
(***************************************************************************)
\* Words of a query to the alert route.
MaxRouteWords == 2

SAN_FRANCISCO == <<"S","a","n"," ","F","r","a","n","c","i","s","c","o">>

\* The config _route_to_alert_agent builds for a setup.
HubAlertConfig(q) ==
    [locations |-> IF _extract_locations(q) # <<>> THEN _extract_locations(q)
                   ELSE <<SAN_FRANCISCO>>,
     alert_types |-> <<"severe_weather", "temperature_extreme">>,
     thresholds |-> [temperature_high |-> 85, temperature_low |-> 35],
     notifications |-> [email |-> TRUE]]

AlertRouteVocabulary ==
    << <<"S","e","t","u","p">>,
       <<"s","e","t">>,
       <<"a","l","e","r","t">>,
       <<"m","o","n","i","t","o","r">>,
       <<"T","e","x","a","s">>,
       <<"R","o","m","e">> >>

\* The queries process_coordinated_query routes to the alert workflow, by
\* their words or by the coordination_type argument.
AlertRouteQueries ==
    { Join([i \in 1..k |-> AlertRouteVocabulary[w[i]]]) :
        k \in 0..MaxRouteWords, w \in [1..MaxRouteWords -> 1..Len(AlertRouteVocabulary)] }

HubAlertConfigOf == [q \in AlertRouteQueries |-> HubAlertConfig(q)]

\* The hub leaves the route with result `r`.
HubRouted(r) ==
    /\ hub_result' = r
    /\ hub_invoked' = Append(hub_invoked, "alerts")
    /\ hub_pc' = "Routed"
    /\ UNCHANGED <<hub_query, coordination_type, travel_agent, weather_orchestrator>>

\* _route_to_alert_agent, the setup branch: setup_smart_alerts(config) and
\* the tagged result; nothing is awaited on the way.
HubAlertSetup ==
    /\ hub_pc = "Routing"
    /\ coordination_type = "alerts"
    /\ IsAlertSetup(hub_query)
    /\ alert_subscriptions' =
          DictStore(alert_subscriptions, AlertId(now),
                    Subscription(HubAlertConfigOf[hub_query], now))
    /\ setups' = Append(setups, [alert_id |-> AlertId(now),
                                 config |-> Subscription(HubAlertConfigOf[hub_query], now)])
    /\ HubRouted(RouteResult(TRUE, "alert_setup", <<"alert_agent">>))
    /\ UNCHANGED <<alert_history, now, chk_pc, chk_size, chk_i, chk_id, chk_locs, chk_j,
                   triggered_alerts, chk_log, mon_pc>>
    /\ UNCHANGED <<orchestrator_vars, consensus_vars, travel_vars, server_vars>>

\* _route_to_alert_agent, the check branch: the check runs from its entry to
\* its first query, or to its end.
HubAlertCheck ==
    /\ hub_pc = "Routing"
    /\ coordination_type = "alerts"
    /\ ~IsAlertSetup(hub_query)
    /\ triggered_alerts' = <<>>
    /\ chk_size' = Len(alert_subscriptions)
    /\ CheckAt(Advance(alert_subscriptions, Len(alert_subscriptions), 0, <<>>, <<>>, 0, <<>>))
    /\ hub_pc' = "Checking"
    /\ hub_invoked' = Append(hub_invoked, "check")
    /\ UNCHANGED <<hub_query, coordination_type, travel_agent, weather_orchestrator,
                   hub_result>>
    /\ UNCHANGED <<alert_subscriptions, alert_history, now, setups>>
    /\ UNCHANGED <<orchestrator_vars, consensus_vars, travel_vars, server_vars>>

\* The check has returned its list: the route returns success with it
\* (the "alerts" of the result are triggered_alerts).
HubAlertChecked ==
    /\ hub_pc = "Checking"
    /\ chk_pc = "Done"
    /\ HubRouted(RouteResult(TRUE, "alert_check", <<"alert_agent">>))
    /\ UNCHANGED <<orchestrator_vars, consensus_vars, alert_vars, travel_vars, server_vars>>

\* The check has raised: neither the route nor process_coordinated_query
\* has a handler, the exception reaches the caller.
HubAlertRaised ==
    /\ hub_pc = "Checking"
    /\ chk_pc = "Raised"
    /\ hub_pc' = "Faulted"
    /\ UNCHANGED <<hub_query, coordination_type, travel_agent, weather_orchestrator,
                   hub_result, hub_invoked>>
    /\ UNCHANGED <<orchestrator_vars, consensus_vars, alert_vars, travel_vars, server_vars>>

\* One call of process_coordinated_query that goes to the alert workflow, on
\* a hub with both engines.
HubAlertInit ==
    /\ hub_pc = "Start"
    /\ hub_query \in AlertRouteQueries
    /\ coordination_type \in {"auto", "alerts"}
    /\ coordination_type = "auto" => _determine_coordination_strategy(hub_query) = "alerts"
    /\ travel_agent = TRUE
    /\ weather_orchestrator = TRUE
    /\ hub_result = NoResult
    /\ hub_invoked = <<>>
    /\ query = [c \in Calls |-> <<>>]
    /\ pc = [c \in Calls |-> "Idle"]
    /\ source_outcomes = Outcomes
    /\ IdleFrames
    /\ ConsensusIdle
    /\ AlertIdle
    /\ TravelIdle
    /\ ServerIdle

HubAlertNext ==
    \/ \E user_config \in UserConfigs : SetupSmartAlerts(user_config)
    \/ Tick
    \/ DetermineStrategy
    \/ HubAlertSetup
    \/ HubAlertCheck
    \/ ReceiveWeather
    \/ HubAlertChecked
    \/ HubAlertRaised
    \/ HubReturn

HubAlertSpec == HubAlertInit /\ [][HubAlertNext]_vars

(***************************************************************************)
(* Travel planning: TravelAgent.plan_travel_with_weather                   *)
(* (src/travel_agent.py).                                                  *)
(***************************************************************************)
MaxTravelWords == 3

DigitValue ==
    ("0" :> 0) @@ ("1" :> 1) @@ ("2" :> 2) @@ ("3" :> 3) @@ ("4" :> 4) @@
    ("5" :> 5) @@ ("6" :> 6) @@ ("7" :> 7) @@ ("8" :> 8) @@ ("9" :> 9)

IsDigit(ch) == ch \in DOMAIN DigitValue
IsUpper(ch) == ch \in DOMAIN ToLower
IsLower(ch) == ch \in DOMAIN ToUpper

\* int(digits)
RECURSIVE IntOf(_)
IntOf(digits) ==
    IF digits = <<>> THEN 0
    ELSE 10 * IntOf(SubSeq(digits, 1, Len(digits) - 1)) + DigitValue[digits[Len(digits)]]

\* The words of a text, which are separated by single spaces.
RECURSIVE Words(_)
Words(s) ==
    IF s = <<>> THEN <<>>
    ELSE IF \E i \in 1..Len(s) : s[i] = " "
    THEN LET i == CHOOSE i \in 1..Len(s) :
                     s[i] = " " /\ \A k \in 1..(i - 1) : s[k] # " "
         IN  (IF i = 1 THEN <<>> ELSE <<SubSeq(s, 1, i - 1)>>)
             \o Words(SubSeq(s, i + 1, Len(s)))
    ELSE <<s>>

\* A word the pattern [A-Z][a-z]+ matches as a whole.
IsCapitalized(w) ==
    /\ Len(w) >= 2
    /\ IsUpper(w[1])
    /\ \A i \in 2..Len(w) : IsLower(w[i])

\* re.findall(city_pattern, query): the maximal runs of capitalized words,
\* each run joined by the spaces between its words.
RECURSIVE CityRuns(_, _)
CityRuns(words, run) ==
    IF words = <<>> THEN (IF run = <<>> THEN <<>> ELSE <<run>>)
    ELSE IF IsCapitalized(Head(words))
    THEN CityRuns(Tail(words),
                  IF run = <<>> THEN Head(words) ELSE run \o <<" ">> \o Head(words))
    ELSE (IF run = <<>> THEN <<>> ELSE <<run>>) \o CityRuns(Tail(words), <<>>)

common_words ==
    { <<"P","l","a","n">>,
      <<"T","r","a","v","e","l">>,
      <<"W","e","a","t","h","e","r">>,
      <<"F","o","r">>,
      <<"T","h","i","s">>,
      <<"W","e","e","k","e","n","d">>,
      <<"W","e","e","k">>,
      <<"D","a","y","s">>,
      <<"T","r","i","p">> }

TOKYO == <<"T","o","k","y","o">>

\* The position after the digits that start at i.
RECURSIVE AfterDigits(_, _)
AfterDigits(s, i) == IF i <= Len(s) /\ IsDigit(s[i]) THEN AfterDigits(s, i + 1) ELSE i

\* The position after the spaces that start at i.
RECURSIVE AfterSpaces(_, _)
AfterSpaces(s, i) == IF i <= Len(s) /\ s[i] = " " THEN AfterSpaces(s, i + 1) ELSE i

\* Whether x occurs in s at position i.
OccursAt(s, x, i) ==
    /\ i + Len(x) - 1 <= Len(s)
    /\ SubSeq(s, i, i + Len(x) - 1) = x

\* Whether (\d+)\s*days? matches in s from position i on.
DaysMatchAt(s, i) ==
    /\ i <= Len(s)
    /\ IsDigit(s[i])
    /\ OccursAt(s, <<"d","a","y">>, AfterSpaces(s, AfterDigits(s, i)))

\* re.search(r'(\d+)\s*days?', s): group 1 of the leftmost match, or None.
DaysMatch(s) ==
    IF \E i \in 1..Len(s) : DaysMatchAt(s, i)
    THEN LET i == CHOOSE i \in 1..Len(s) :
                     DaysMatchAt(s, i) /\ \A k \in 1..(i - 1) : ~DaysMatchAt(s, k)
         IN  SubSeq(s, i, AfterDigits(s, i) - 1)
    ELSE None

\* The time indicators of _extract_travel_context.
Duration(q) ==
    LET query_lower == Lower(q) IN
    IF Contains(query_lower, <<"w","e","e","k","e","n","d">>) THEN 3
    ELSE IF Contains(query_lower, <<"w","e","e","k">>) THEN 7
    ELSE IF Contains(query_lower, <<"d","a","y">>)
    THEN (IF DaysMatch(query_lower) # None THEN IntOf(DaysMatch(query_lower)) ELSE 3)
    ELSE 7

\* The destinations of _extract_travel_context.
Destinations(q) ==
    LET potential_cities == CityRuns(Words(q), <<>>)
        destinations == SelectSeq(potential_cities, LAMBDA city : city \notin common_words)
    IN  IF destinations = <<>> THEN <<TOKYO>> ELSE destinations

\* TravelAgent._extract_travel_context
_extract_travel_context(q) ==
    [destinations |-> Destinations(q), duration |-> Duration(q)]

\* What _get_weather_via_http returns: the JSON object of the weather server
\* with requested_duration added, whose condition is a text or is not, or an
\* error dict (a status other than 200, an exception, a body that is no
\* object).  It catches every exception itself.
_get_weather_via_http == {"observation", "condition_not_text", "error"}

\* The loop over the destinations goes on to the next destination whatever
\* the call returned.
NextDestination(i, reply, n) == i + 1

\* Whether _create_simple_recommendation raises: .lower() of a condition
\* that is not a text.
RecommendationRaises(destinations, results) ==
    \E i \in 1..Len(destinations) : results[destinations[i]] = "condition_not_text"

TravelVocabulary ==
    << <<"P","l","a","n">>,
       <<"R","o","m","e">>,
       <<"P","a","r","i","s">>,
       <<"w","e","e","k","e","n","d">>,
       <<"w","e","e","k","l","y">>,
       <<"d","a","y">>,
       <<"d","a","y","s">>,
       <<"1","2">> >>

TravelQueries ==
    { Join([i \in 1..k |-> TravelVocabulary[w[i]]]) :
        k \in 0..MaxTravelWords,
        w \in [1..MaxTravelWords -> 1..Len(TravelVocabulary)] }

ContextOf == [q \in TravelQueries |-> _extract_travel_context(q)]

\* Step 1: the travel context.
ExtractTravelContext ==
    /\ tr_pc = "Start"
    /\ travel_context' = ContextOf[travel_query]
    /\ tr_pc' = "Weather"
    /\ UNCHANGED <<travel_query, tr_i, weather_results, tr_result, tr_calls>>
    /\ UNCHANGED <<orchestrator_vars, consensus_vars, hub_vars, alert_vars, server_vars>>

\* Step 2, one destination: the call and the store of what it returned.
GetWeather ==
    /\ tr_pc = "Weather"
    /\ tr_i < Len(travel_context.destinations)
    /\ \E reply \in _get_weather_via_http :
          LET destination == travel_context.destinations[tr_i + 1] IN
          /\ weather_results' = DictSet(weather_results, destination, reply)
          /\ tr_calls' = Append(tr_calls, [city |-> destination,
                                           days |-> travel_context.duration,
                                           reply |-> reply])
          /\ tr_i' = NextDestination(tr_i, reply, Len(travel_context.destinations))
    /\ UNCHANGED <<travel_query, tr_pc, travel_context, tr_result>>
    /\ UNCHANGED <<orchestrator_vars, consensus_vars, hub_vars, alert_vars, server_vars>>

\* Step 3 and the return: the success dict, or the failure dict of the except
\* block when the recommendation raised.
ReturnTravelPlan ==
    /\ tr_pc = "Weather"
    /\ tr_i >= Len(travel_context.destinations)
    /\ tr_result' =
          IF RecommendationRaises(travel_context.destinations, weather_results)
          THEN [success |-> FALSE, error |-> "travel_planning_failed"]
          ELSE [success |-> TRUE, travel_context |-> travel_context,
                weather_data |-> weather_results]
    /\ tr_pc' = "Done"
    /\ UNCHANGED <<travel_query, travel_context, tr_i, weather_results, tr_calls>>
    /\ UNCHANGED <<orchestrator_vars, consensus_vars, hub_vars, alert_vars, server_vars>>

\* One call of plan_travel_with_weather, with any query and any behaviour of
\* the weather server.
TravelInit ==
    /\ travel_query \in TravelQueries
    /\ tr_pc = "Start"
    /\ travel_context = NoContext
    /\ tr_i = 0
    /\ weather_results = <<>>
    /\ tr_result = [success |-> "none"]
    /\ tr_calls = <<>>
    /\ OthersIdle
    /\ AlertIdle

TravelNext ==
    \/ ExtractTravelContext
    \/ GetWeather
    \/ ReturnTravelPlan

TravelSpec == TravelInit /\ [][TravelNext]_vars

(***************************************************************************)
(* The weather server: make_api_request (src/weather.py).  The coroutine   *)
(* is suspended while the GET is awaited and while it sleeps.              *)
(***************************************************************************)
\* The largest max_retries argument.
MaxRetries == 3

\* What one GET can do: time out, fail otherwise (connection error), answer
\* with a status, or answer 200 with a body that is no JSON.
Attempt(kind, code) == [kind |-> kind, code |-> code]

AttemptOutcomes ==
    {Attempt("timeout", 0), Attempt("error", 0), Attempt("bad_json", 200)}
    \cup {Attempt("status", code) : code \in {200, 304, 400, 404, 499, 500, 503}}

\* response.raise_for_status() raises HTTPStatusError.
RaisesForStatus(outcome) ==
    outcome.kind = "status" /\ ~(200 <= outcome.code /\ outcome.code < 300)

\* Mutant: no status ends the loop.
IsClientErrorNever(outcome) == FALSE

\* `if 400 <= e.response.status_code < 500: break`
IsClientError(outcome) ==
    RaisesForStatus(outcome) /\ 400 <= outcome.code /\ outcome.code < 500

\* The try block returns data.
IsSuccess(outcome) == outcome.kind = "status" /\ ~RaisesForStatus(outcome)

\* 2 ** k
RECURSIVE Pow2(_)
Pow2(k) == IF k = 0 THEN 1 ELSE 2 * Pow2(k - 1)

\* Mutant: the wait is made after the last attempt as well.
ShouldWaitAlways(count, max) == TRUE

\* `if retry_count < max_retries:` before the sleep
ShouldWait(count, max) == count < max

\* `while retry_count < max_retries:`
LoopContinues(count, max) == count < max

\* The loop is left: the error is logged and None returned.
ReturnNone ==
    /\ rq_pc' = "Done"
    /\ rq_result' = "None"

\* make_api_request up to its first GET.
StartRequest ==
    /\ rq_pc = "Start"
    /\ IF LoopContinues(retry_count, max_retries)
       THEN rq_pc' = "Requesting" /\ UNCHANGED rq_result
       ELSE ReturnNone
    /\ UNCHANGED <<max_retries, retry_count, rq_log, request_counts, rl_now, rl_log>>
    /\ UNCHANGED <<orchestrator_vars, consensus_vars, hub_vars, alert_vars, travel_vars>>

\* The GET returns or raises: the data is returned, or the handler of the
\* exception runs and then the end of the loop body.
AttemptReturns ==
    /\ rq_pc = "Requesting"
    /\ \E outcome \in AttemptOutcomes :
        LET tried == Append(rq_log, [event |-> "attempt", n |-> retry_count + 1,
                                     outcome |-> outcome])
        IN  IF IsSuccess(outcome)
            THEN /\ rq_log' = tried
                 /\ rq_pc' = "Done"
                 /\ rq_result' = "data"
                 /\ UNCHANGED retry_count
            ELSE IF IsClientError(outcome)
            THEN /\ rq_log' = tried
                 /\ ReturnNone
                 /\ UNCHANGED retry_count
            ELSE /\ retry_count' = retry_count + 1
                 /\ IF ShouldWait(retry_count + 1, max_retries)
                    THEN /\ rq_log' = Append(tried, [event |-> "sleep", n |-> retry_count + 1,
                                                     seconds |-> Pow2(retry_count + 1)])
                         /\ rq_pc' = "Sleeping"
                         /\ UNCHANGED rq_result
                    ELSE /\ rq_log' = tried
                         /\ IF LoopContinues(retry_count + 1, max_retries)
                            THEN rq_pc' = "Requesting" /\ UNCHANGED rq_result
                            ELSE ReturnNone
    /\ UNCHANGED <<max_retries, request_counts, rl_now, rl_log>>
    /\ UNCHANGED <<orchestrator_vars, consensus_vars, hub_vars, alert_vars, travel_vars>>

\* asyncio.sleep returns: the loop condition is tested.
SleepReturns ==
    /\ rq_pc = "Sleeping"
    /\ IF LoopContinues(retry_count, max_retries)
       THEN rq_pc' = "Requesting" /\ UNCHANGED rq_result
       ELSE ReturnNone
    /\ UNCHANGED <<max_retries, retry_count, rq_log, request_counts, rl_now, rl_log>>
    /\ UNCHANGED <<orchestrator_vars, consensus_vars, hub_vars, alert_vars, travel_vars>>

\* The request components idle, the rate limiter unused.
RateIdle ==
    /\ request_counts = <<>>
    /\ rl_now = 0
    /\ rl_log = <<>>

\* One call of make_api_request, with any max_retries.
RetryInit ==
    /\ max_retries \in 0..MaxRetries
    /\ retry_count = 0
    /\ rq_pc = "Start"
    /\ rq_log = <<>>
    /\ rq_result = "pending"
    /\ RateIdle
    /\ query = [c \in Calls |-> <<>>]
    /\ pc = [c \in Calls |-> "Idle"]
    /\ source_outcomes = Outcomes
    /\ IdleFrames
    /\ ConsensusIdle
    /\ HubIdle
    /\ AlertIdle
    /\ TravelIdle

RetryNext ==
    \/ StartRequest
    \/ AttemptReturns
    \/ SleepReturns

\* The GET carries a timeout and the sleep is finite: the coroutine is
\* resumed whenever it is suspended.
RetrySpec == RetryInit /\ [][RetryNext]_vars /\ WF_vars(RetryNext)

(***************************************************************************)
(* The weather server: the rate_limit decorator of the three tools         *)
(* (src/weather.py).  The wrapper awaits nothing before the tool body, so  *)
(* one call of it is one step.  The decorator is the same for every        *)
(* max_requests and window_seconds; the tools' arguments (30, 50 and 40    *)
(* calls in 60 seconds) are scaled down, in their order.                   *)
(***************************************************************************)
\* window_seconds of the three tools (60 in the source).
WindowSeconds == 2
\* max_requests of get_alerts (30 in the source).
AlertsLimit == 1
\* Tool calls in a behaviour, and the last second of the clock.
MaxToolCalls == 5
MaxRateClock == 4

Tools == {"get_alerts", "get_forecast", "get_weather"}

\* @rate_limit(max_requests=..., window_seconds=60): get_alerts has the
\* smallest limit, then get_weather, then get_forecast.
max_requests ==
    [get_alerts |-> AlertsLimit, get_weather |-> AlertsLimit + 1,
     get_forecast |-> AlertsLimit + 2]

window_seconds == [tool \in Tools |-> WindowSeconds]

\* Mutant: no time is ever removed from the list.
PrunedNever(times, current_time, window) == times

\* [req_time for req_time in request_counts[client_id]
\*  if current_time - req_time < window_seconds]
Pruned(times, current_time, window) ==
    SelectSeq(times, LAMBDA req_time : current_time - req_time < window)

\* `if len(request_counts[client_id]) >= max_requests: raise HTTPException(429)`
Exceeded(times, limit) == Len(times) >= limit

\* One call of a tool through its wrapper: the list of client "default" is
\* pruned, then the call is rejected with status 429, or its time is
\* appended and the tool body runs.
ToolCall(tool) ==
    /\ Len(rl_log) < MaxToolCalls
    /\ LET kept == Pruned(request_counts, rl_now, window_seconds[tool]) IN
        IF Exceeded(kept, max_requests[tool])
        THEN /\ request_counts' = kept
             /\ rl_log' = Append(rl_log, [tool |-> tool, time |-> rl_now,
                                          admitted |-> FALSE, status |-> 429])
        ELSE /\ request_counts' = Append(kept, rl_now)
             /\ rl_log' = Append(rl_log, [tool |-> tool, time |-> rl_now,
                                          admitted |-> TRUE, status |-> 200])
    /\ UNCHANGED <<rl_now, max_retries, retry_count, rq_pc, rq_log, rq_result>>
    /\ UNCHANGED <<orchestrator_vars, consensus_vars, hub_vars, alert_vars, travel_vars>>

\* A second passes.
RateTick ==
    /\ rl_now < MaxRateClock
    /\ rl_now' = rl_now + 1
    /\ UNCHANGED <<request_counts, rl_log, max_retries, retry_count, rq_pc, rq_log,
                   rq_result>>
    /\ UNCHANGED <<orchestrator_vars, consensus_vars, hub_vars, alert_vars, travel_vars>>

\* A new server process: request_counts is empty.
RateInit ==
    /\ ServerIdle
    /\ query = [c \in Calls |-> <<>>]
    /\ pc = [c \in Calls |-> "Idle"]
    /\ source_outcomes = Outcomes
    /\ IdleFrames
    /\ ConsensusIdle
    /\ HubIdle
    /\ AlertIdle
    /\ TravelIdle

\* Calls of the three tools, in any order and at any times.
RateNext ==
    \/ \E tool \in Tools : ToolCall(tool)
    \/ RateTick

RateSpec == RateInit /\ [][RateNext]_vars

(***************************************************************************)
(* The graph engine: WeatherOrchestrator._run_graph_async                  *)
(* (src/agent_orchestrator.py), run as call 2 on the task type and the     *)
(* locations that call 1, a process_query of the simple engine, resolved.  *)
(***************************************************************************)
\* str.upper()
Upper(s) == [i \in 1..Len(s) |-> UpperChar(s[i])]

\* us_states of _gather_alert_data
graph_us_states == {<<"C","A">>, <<"N","Y">>, <<"T","X">>, <<"F","L">>, <<"W","A">>}

\* The coordinates _gather_forecast_data passes: 51.5074, -0.1278.
GRAPH_FORECAST_COORDS == <<515074, -1278>>

\* _gather_weather_data: for location in state["locations"]
GraphWeatherCalls(locs) ==
    [i \in 1..Len(locs) |-> Call("get_weather", locs[i], locs[i], locs[i])]

\* _gather_forecast_data: one call when there is a location.
GraphForecastCalls(locs) ==
    IF locs # <<>>
    THEN <<Call("get_forecast", GRAPH_FORECAST_COORDS, locs[1], locs[1])>>
    ELSE <<>>

\* _gather_alert_data: a call for every location whose upper() is a code of
\* us_states.
RECURSIVE GraphAlertCalls(_)
GraphAlertCalls(locs) ==
    IF locs = <<>> THEN <<>>
    ELSE (IF Upper(Head(locs)) \in graph_us_states
          THEN <<Call("get_alerts", Upper(Head(locs)), Head(locs), Head(locs))>>
          ELSE <<>>) \o GraphAlertCalls(Tail(locs))

\* The gathering node _run_graph_async runs for the task type.
GraphGatherCalls(task, locs) ==
    CASE task \in {WEATHER_QUERY, MULTI_LOCATION} -> GraphWeatherCalls(locs)
      [] task = FORECAST_ANALYSIS -> GraphForecastCalls(locs)
      [] task = ALERT_MONITORING -> GraphAlertCalls(locs)
      [] OTHER -> <<>>

\* The log entry a gathering node appends.
GraphGatheredEntry(task, locs, calls) ==
    CASE task \in {WEATHER_QUERY, MULTI_LOCATION} ->
            <<LogEntry("gathered_weather", "", <<>>, Len(locs))>>
      [] task = FORECAST_ANALYSIS /\ locs # <<>> ->
            <<LogEntry("gathered_forecast", "", <<>>, 0)>>
      [] task = ALERT_MONITORING ->
            <<LogEntry("gathered_alerts", "", <<>>, Len(calls))>>
      [] OTHER -> <<>>

\* MCPToolCaller.call_*_tool: response.json(), or the error dict.
GraphCallTool(outcome) ==
    IF ~get_server("weather-server") THEN ErrorDict("server_not_found")
    ELSE IF outcome \in {"exception", "empty_body", "bad_json"}
    THEN ErrorDict("failed_to_call")
    ELSE JsonValue(outcome)

\* The classify and extract_locations nodes, whose answers come from the
\* LLM: taken to be the task type and the locations call 1 resolved (no
\* locations are extracted for a general inquiry).
GraphClassifyAndExtract ==
    /\ pc[2] = "GraphStart"
    /\ pc[1] = "Done"
    /\ task_type' = [task_type EXCEPT ![2] = task_type[1]]
    /\ locations' =
          [locations EXCEPT ![2] = IF task_type[1] = GENERAL_INQUIRY THEN <<>>
                                   ELSE locations[1]]
    /\ execution_log' =
          [execution_log EXCEPT ![2] =
              <<LogEntry("classified", task_type[1], <<>>, 0)>>
              \o (IF task_type[1] = GENERAL_INQUIRY THEN <<>>
                  ELSE <<LogEntry("locations", "", locations[1], 0)>>)]
    /\ pc' = [pc EXCEPT ![2] = "GraphRouted"]
    /\ UNCHANGED <<query, gathered_data, response, loop_i, inflight, result, callLog,
                   received, concurrent, source_outcomes>>
    /\ UNCHANGED <<consensus_vars, hub_vars, alert_vars, travel_vars, server_vars>>

\* The gathering node up to its first await, or to its end.
GraphBeginGather ==
    /\ pc[2] = "GraphRouted"
    /\ LET calls == GraphGatherCalls(task_type[2], locations[2]) IN
        IF calls # <<>>
        THEN /\ inflight' = [inflight EXCEPT ![2] = calls[1]]
             /\ callLog' = [callLog EXCEPT ![2] = Append(@, calls[1])]
             /\ loop_i' = [loop_i EXCEPT ![2] = 1]
             /\ pc' = [pc EXCEPT ![2] = "GraphGathering"]
             /\ UNCHANGED execution_log
        ELSE /\ execution_log' =
                  [execution_log EXCEPT ![2] =
                      @ \o GraphGatheredEntry(task_type[2], locations[2], calls)]
             /\ pc' = [pc EXCEPT ![2] = "GraphGathered"]
             /\ UNCHANGED <<inflight, callLog, loop_i>>
    /\ UNCHANGED <<query, task_type, locations, gathered_data, response, result,
                   received, concurrent, source_outcomes>>
    /\ UNCHANGED <<consensus_vars, hub_vars, alert_vars, travel_vars, server_vars>>

\* The awaited tool call returns: its value is stored under the location,
\* and the node issues its next call or ends.
GraphReceive ==
    /\ pc[2] = "GraphGathering"
    /\ \E outcome \in source_outcomes \cap ToolOutcomes(inflight[2].tool) :
        LET calls == GraphGatherCalls(task_type[2], locations[2]) IN
        /\ gathered_data' =
              [gathered_data EXCEPT ![2] = DictSet(@, inflight[2].key, GraphCallTool(outcome))]
        /\ received' = [received EXCEPT ![2] = Append(@, outcome)]
        /\ IF loop_i[2] < Len(calls)
           THEN /\ inflight' = [inflight EXCEPT ![2] = calls[loop_i[2] + 1]]
                /\ callLog' = [callLog EXCEPT ![2] = Append(@, calls[loop_i[2] + 1])]
                /\ loop_i' = [loop_i EXCEPT ![2] = @ + 1]
                /\ UNCHANGED <<pc, execution_log>>
           ELSE /\ inflight' = [inflight EXCEPT ![2] = NoCall]
                /\ execution_log' =
                      [execution_log EXCEPT ![2] =
                          @ \o GraphGatheredEntry(task_type[2], locations[2], calls)]
                /\ pc' = [pc EXCEPT ![2] = "GraphGathered"]
                /\ UNCHANGED <<callLog, loop_i>>
    /\ UNCHANGED <<query, task_type, locations, response, result, concurrent,
                   source_outcomes>>
    /\ UNCHANGED <<consensus_vars, hub_vars, alert_vars, travel_vars, server_vars>>

\* The analyze node raises (the LLM is not reachable, or KeyError 'alert'),
\* and process_query returns the failure dict of its except block.
GraphAnalyze ==
    /\ pc[2] = "GraphGathered"
    /\ \E error \in graph_process_query :
          result' = [result EXCEPT ![2] = FailureResult(error, execution_log[2])]
    /\ pc' = [pc EXCEPT ![2] = "Done"]
    /\ UNCHANGED <<query, task_type, locations, gathered_data, execution_log, response,
                   loop_i, inflight, callLog, received, concurrent, source_outcomes>>
    /\ UNCHANGED <<consensus_vars, hub_vars, alert_vars, travel_vars, server_vars>>

\* The sources answer with an observation or an error, or fail.
EngineOutcomes == {"observation", "text", "error_reply", "exception"}

\* One query given to the simple engine, then to the graph engine.
EnginesInit ==
    /\ \E q \in Queries : query = [c \in Calls |-> IF c \in {1, 2} THEN q ELSE <<>>]
    /\ pc = [c \in Calls |-> IF c = 1 THEN "Start" ELSE IF c = 2 THEN "GraphStart" ELSE "Idle"]
    /\ source_outcomes = EngineOutcomes
    /\ IdleFrames
    /\ ConsensusIdle
    /\ HubIdle
    /\ AlertIdle
    /\ TravelIdle
    /\ ServerIdle

EnginesNext ==
    \/ Classify(1)
    \/ ExtractLocations(1)
    \/ BeginGather(1)
    \/ Receive(1)
    \/ FormatResponse(1)
    \/ Return(1)
    \/ GraphClassifyAndExtract
    \/ GraphBeginGather
    \/ GraphReceive
    \/ GraphAnalyze

EnginesSpec == EnginesInit /\ [][EnginesNext]_vars

(***************************************************************************)
(* Properties of the classifier and of process_query.                      *)
(***************************************************************************)
\* The call has been classified.
Classified(c) == pc[c] \notin {"Idle", "Start"}

\* The gathering step of the call is over.
Gathered(c) == pc[c] \in {"DataGathered", "Responded", "Done", "Faulted"}

HasForecastWord(q) == AnyWordIn(forecast_words, Lower(q))
HasAlertWord(q) == AnyWordIn(alert_words, Lower(q))
HasMultiWord(q) == AnyWordIn(multi_words, Lower(q))
HasWeatherWord(q) == AnyWordIn(weather_words, Lower(q))

\* C1: the keyword sets are tested in the order forecast, alert,
\* multi-location, weather, and the first set with a keyword in the
\* lowercased query decides the category: a forecast keyword gives
\* forecast_analysis whatever else the query holds, an alert keyword without
\* a forecast keyword gives alert_monitoring, a multi-location keyword
\* without those gives multi_location, a weather keyword alone weather_query.
C1_ClassifyOrder ==
    \A c \in Calls :
        Classified(c) =>
            LET q == query[c]
                t == task_type[Frame(c)]
            IN  /\ HasForecastWord(q) => t = FORECAST_ANALYSIS
                /\ ~HasForecastWord(q) /\ HasAlertWord(q) => t = ALERT_MONITORING
                /\ ~HasForecastWord(q) /\ ~HasAlertWord(q) /\ HasMultiWord(q)
                      => t = MULTI_LOCATION
                /\ ~HasForecastWord(q) /\ ~HasAlertWord(q) /\ ~HasMultiWord(q)
                      /\ HasWeatherWord(q) => t = WEATHER_QUERY

\* A query with a forecast keyword and a compare keyword has been classified
\* as forecast_analysis.
C1_Witness ==
    \E c \in Calls :
        /\ pc[c] = "Classified"
        /\ HasForecastWord(query[c])
        /\ HasMultiWord(query[c])
        /\ task_type[Frame(c)] = FORECAST_ANALYSIS

\* C2: classification is total and a function of the query: every
\* classified call has exactly one category of TaskType, two calls with the
\* same query have the same category, the category is the one returned in the
\* result, and a query without any keyword is a general_inquiry.
C2_ClassifyTotal ==
    \A c \in Calls :
        Classified(c) =>
            /\ task_type[Frame(c)] \in TaskType
            /\ \A d \in Calls :
                  Classified(d) /\ query[d] = query[c]
                      => task_type[Frame(d)] = task_type[Frame(c)]
            /\ ~HasForecastWord(query[c]) /\ ~HasAlertWord(query[c])
                  /\ ~HasMultiWord(query[c]) /\ ~HasWeatherWord(query[c])
                  => task_type[Frame(c)] = GENERAL_INQUIRY
            /\ pc[c] = "Done" /\ result[c].success = TRUE
                  => result[c].task_type = task_type[Frame(c)]

\* A non-empty query without any keyword has been classified general_inquiry.
C2_Witness ==
    \E c \in Calls :
        /\ pc[c] = "Classified"
        /\ query[c] # <<>>
        /\ ~HasForecastWord(query[c]) /\ ~HasAlertWord(query[c])
        /\ ~HasMultiWord(query[c]) /\ ~HasWeatherWord(query[c])
        /\ task_type[Frame(c)] = GENERAL_INQUIRY

\* C3: no fault escapes process_query: whatever the sources do, a call never
\* ends with an uncaught exception, a finished call has returned a dict with
\* a boolean success flag, and a dict with success false carries an error
\* message and the execution log, whose entries are the steps taken before
\* the failure followed by the error entry.
C3_NoFaultEscapes ==
    \A c \in Calls :
        /\ pc[c] # "Faulted"
        /\ pc[c] = "Done" =>
            LET r == result[c] IN
            /\ r.success \in BOOLEAN
            /\ r.success = FALSE =>
                /\ "error" \in DOMAIN r
                /\ "execution_log" \in DOMAIN r
                /\ LET log == r.execution_log IN
                    /\ Len(log) >= 3
                    /\ log[1].step = "classified"
                    /\ log[2].step = "locations"
                    /\ log[Len(log)].step = "error"
                    /\ \A i \in 1..(Len(log) - 1) : log[i].step # "error"

\* A call has returned the failure dict.
C3_Witness ==
    \E c \in Calls :
        /\ pc[c] = "Done"
        /\ result[c].success = FALSE
        /\ received[c] # <<>>

\* The fetch of the i-th gathering call of c failed: the tool returned an
\* error dict.
FetchFailed(c, i) == _call_tool(received[c][i]).has_error

\* Every fetch of c returned an observation or an error dict.
FetchesWellFormed(c) ==
    \A i \in 1..Len(received[c]) : _call_tool(received[c][i]).type = "dict"

\* C4: for a weather_query or multi_location call with n locations the
\* calls issued are get_weather calls for the locations, in order, n of them
\* once gathering is over, whatever the earlier calls returned; and a
\* multi_location call whose fetches each returned an observation or an
\* error succeeds with one line per location, an error line exactly for the
\* locations whose fetch failed.
C4_WeatherFanOut ==
    \A c \in Calls :
        LET t == task_type[Frame(c)]
            locs == locations[Frame(c)]
            n == Len(locs)
        IN  t \in {WEATHER_QUERY, MULTI_LOCATION} =>
            /\ Len(callLog[c]) <= n
            /\ \A i \in 1..Len(callLog[c]) :
                  callLog[c][i].tool = "get_weather" /\ callLog[c][i].arg = locs[i]
            /\ Gathered(c) => Len(callLog[c]) = n /\ Len(received[c]) = n
            /\ t = MULTI_LOCATION /\ pc[c] = "Done" /\ FetchesWellFormed(c) =>
                /\ result[c].success = TRUE
                /\ n = 0 => result[c].response.rule = "fallback"
                /\ n > 0 => result[c].response.rule = "weather_comparison"
                /\ LET lines == result[c].response.lines IN
                    /\ Len(lines) = n
                    /\ \A i \in 1..n :
                          /\ lines[i].location = locs[i]
                          /\ lines[i].kind = IF FetchFailed(c, i) THEN "error" ELSE "normal"
                    /\ Cardinality({i \in 1..n : lines[i].kind = "error"})
                          = Cardinality({i \in 1..n : FetchFailed(c, i)})

\* A two-location multi_location call has finished with success after the
\* first fetch failed and the second returned an observation.
C4_Witness ==
    \E c \in Calls :
        /\ pc[c] = "Done"
        /\ task_type[Frame(c)] = MULTI_LOCATION
        /\ Len(locations[Frame(c)]) = 2
        /\ FetchesWellFormed(c)
        /\ FetchFailed(c, 1) /\ ~FetchFailed(c, 2)
        /\ result[c].success = TRUE
        /\ result[c].response.lines[1].kind = "error"
        /\ result[c].response.lines[2].kind = "normal"

\* The locations of c that map to a state code, as positions.
CodedPositions(c) ==
    {i \in 1..Len(locations[Frame(c)]) : _get_state_code(locations[Frame(c)][i]) # None}

\* C5: an alert_monitoring call issues at most one get_alerts call, for the
\* first location, in list order, that maps to a state code: one call when
\* some location maps to a code, none otherwise, and the call succeeds in
\* both cases.
C5_SingleAlertCall ==
    \A c \in Calls :
        task_type[Frame(c)] = ALERT_MONITORING =>
            LET locs == locations[Frame(c)]
                coded == CodedPositions(c)
            IN  /\ Len(callLog[c]) <= 1
                /\ \A i \in 1..Len(callLog[c]) :
                      /\ callLog[c][i].tool = "get_alerts"
                      /\ \E j \in coded :
                            /\ \A k \in coded : j <= k
                            /\ callLog[c][i].arg = _get_state_code(locs[j])
                /\ Gathered(c) => (Len(callLog[c]) = 1 <=> coded # {})
                /\ pc[c] = "Done" => result[c].success = TRUE

\* An alert_monitoring call with two state-coded locations has finished
\* after one get_alerts call.
C5_Witness ==
    \E c \in Calls :
        /\ pc[c] = "Done"
        /\ task_type[Frame(c)] = ALERT_MONITORING
        /\ Cardinality(CodedPositions(c)) >= 2
        /\ Len(callLog[c]) = 1

\* C6: a forecast_analysis call with a location issues at most one
\* get_forecast call, with the coordinates of the first location; when the
\* first location has no coordinates no call is issued, an error is stored
\* under "forecast", and the call ends with success and the forecast error
\* text.
C6_ForecastFirstOnly ==
    \A c \in Calls :
        LET locs == locations[Frame(c)]
            data == gathered_data[Frame(c)]
        IN  task_type[Frame(c)] = FORECAST_ANALYSIS /\ locs # <<>> =>
            /\ Len(callLog[c]) <= 1
            /\ \A i \in 1..Len(callLog[c]) :
                  /\ callLog[c][i].tool = "get_forecast"
                  /\ callLog[c][i].arg = _get_coordinates(locs[1])
            /\ _get_coordinates(locs[1]) # None /\ Gathered(c) => Len(callLog[c]) = 1
            /\ _get_coordinates(locs[1]) = None =>
                /\ callLog[c] = <<>>
                /\ Gathered(c) =>
                      KEY_forecast \in DOMAIN data /\ data[KEY_forecast].has_error
                /\ pc[c] = "Done" =>
                      /\ result[c].success = TRUE
                      /\ result[c].response.rule = "forecast_error"

\* A forecast_analysis call whose first location has no coordinates and
\* whose second has some has finished.
C6_Witness ==
    \E c \in Calls :
        /\ pc[c] = "Done"
        /\ task_type[Frame(c)] = FORECAST_ANALYSIS
        /\ Len(locations[Frame(c)]) >= 2
        /\ _get_coordinates(locations[Frame(c)][1]) = None
        /\ _get_coordinates(locations[Frame(c)][2]) # None
        /\ callLog[c] = <<>>


\* C7: a call classified general_inquiry skips the location-extraction
\* step: it never takes the step, resolves no location, issues no source
\* call, and returns no location and no gathered data.
C7_GeneralSkipsExtraction ==
    \A c \in Calls :
        Classified(c) /\ task_type[Frame(c)] = GENERAL_INQUIRY =>
            /\ pc[c] # "LocationsExtracted"
            /\ locations[Frame(c)] = <<>>
            /\ callLog[c] = <<>>
            /\ \A i \in 1..Len(execution_log[Frame(c)]) :
                  execution_log[Frame(c)][i].step # "locations"
            /\ pc[c] = "Done" =>
                  /\ result[c].success = TRUE
                  /\ result[c].locations = <<>>
                  /\ result[c].raw_data = EmptyDict

\* The steps of process_query in program order; "Gathering" is the
\* gathering step suspended at a source call.
StepOrder ==
    <<"Idle", "Start", "Classified", "LocationsExtracted", "Gathering",
      "DataGathered", "Responded", "Done", "Faulted">>

Rank(p) == CHOOSE i \in 1..Len(StepOrder) : StepOrder[i] = p

\* C8: the steps of a call occur only in the order Start, Classified,
\* LocationsExtracted, DataGathered, Responded, Done and none is entered
\* twice (every change of position moves strictly forward); the number of
\* source calls is at most the number of resolved locations; and, every
\* source call returning, every started call eventually reaches Done.
C8_AcyclicTerminates ==
    /\ [][\A c \in Calls : pc'[c] # pc[c] => Rank(pc'[c]) > Rank(pc[c])]_vars
    /\ [](\A c \in Calls :
            /\ Len(callLog[c]) <= Len(locations[Frame(c)])
            /\ pc[c] \in {"Idle", "Start", "Classified", "LocationsExtracted",
                          "Gathering", "DataGathered", "Responded", "Done"})
    /\ \A c \in Calls : (pc[c] = "Start") ~> (pc[c] = "Done")

\* A call with two locations is done after one source call per location.
C8_Witness ==
    \E c \in Calls :
        /\ pc[c] = "Done"
        /\ Len(locations[Frame(c)]) = 2
        /\ Len(received[c]) = 2

\* C9: the formatter runs after the join of the gathering step: once a
\* call has produced a response (or the formatter has raised), no gathering
\* call of it is in flight, every call of the step has been issued and has
\* returned, and the value each returned is in the gathered data under its
\* key.
C9_FormatAfterJoin ==
    \A c \in Calls :
        pc[c] \in {"Responded", "Done", "Faulted"} =>
            LET f == Frame(c)
                data == gathered_data[f]
                n == Len(callLog[c])
            IN  /\ inflight[c] = NoCall
                /\ callLog[c] = GatherCalls(task_type[f], locations[f])
                /\ Len(received[c]) = n
                /\ \A i \in 1..n :
                      /\ callLog[c][i].key \in DOMAIN data
                      /\ (\A j \in (i + 1)..n : callLog[c][j].key # callLog[c][i].key)
                            => data[callLog[c][i].key] = _call_tool(received[c][i])
                /\ pc[c] = "Done" /\ result[c].success = TRUE
                      => result[c].raw_data = data

\* A response has been produced from the results of two source calls.
C9_Witness ==
    \E c \in Calls :
        /\ pc[c] = "Responded"
        /\ Len(callLog[c]) = 2
        /\ Len(received[c]) = 2

\* The gathered data of a call run alone whose first n source calls
\* returned outs[1..n].
RECURSIVE StoreAll(_, _, _)
StoreAll(calls, outs, n) ==
    IF n = 0 THEN EmptyDict
    ELSE DictSet(StoreAll(calls, outs, n - 1), calls[n].key, _call_tool(outs[n]))

\* The locals of process_query(q) at its return when the call runs alone,
\* from entry to return, and its source calls return outs.
AloneLocals(q, outs) ==
    LET task == _classify_task(q)
        locs == _extract_locations(q)
        calls == GatherCalls(task, locs)
        data == IF calls # <<>>
                THEN (IF Len(outs) = Len(calls) THEN StoreAll(calls, outs, Len(calls))
                      ELSE EmptyDict)
                ELSE IF task = FORECAST_ANALYSIS /\ locs # <<>>
                     THEN DictSet(EmptyDict, KEY_forecast,
                                  ErrorDict("coordinates_not_available"))
                     ELSE EmptyDict
        gathered == <<LogEntry("classified", task, <<>>, 0),
                      LogEntry("locations", "", locs, 0)>>
                    \o GatheredEntry(task, locs,
                                     IF calls = <<>> THEN NoCall ELSE calls[Len(calls)])
        raises == FormatRaises(task, data, locs)
    IN  [task_type |-> task,
         locations |-> locs,
         gathered_data |-> data,
         raises |-> raises,
         execution_log |->
            Append(gathered,
                   IF raises THEN LogEntry("error", "formatter_raised", <<>>, 0)
                   ELSE LogEntry("response", "", <<>>, 0)),
         response |-> IF raises THEN NoResponse ELSE _format_response(task, data, locs)]

\* What process_query(q) returns when it runs alone.
RunAlone(q, outs) ==
    LET a == AloneLocals(q, outs) IN
    IF Len(outs) # Len(GatherCalls(a.task_type, a.locations)) THEN NoResult
    ELSE IF a.raises THEN FailureResult("formatter_raised", a.execution_log)
    ELSE SuccessResult(a.response, a.task_type, a.locations, a.execution_log,
                       a.gathered_data)

\* C10: calls in flight together do not affect each other: when a call
\* is done, its task type, locations, gathered data, execution log and
\* response, and the dict it returned, are those of the same query run alone
\* with the same source replies.
C10_CallsIsolated ==
    \A c \in Calls :
        pc[c] = "Done" =>
            /\ result[c] = RunAlone(query[c], received[c])
            /\ result[c] # NoResult
            /\ LET a == AloneLocals(query[c], received[c])
                   f == Frame(c)
               IN  /\ task_type[f] = a.task_type
                   /\ locations[f] = a.locations
                   /\ gathered_data[f] = a.gathered_data
                   /\ execution_log[f] = a.execution_log
                   /\ response[f] = a.response

\* Two calls with different queries, each with a source call in flight
\* while the other had one, are both done.
C10_Witness ==
    /\ \A c \in Calls : pc[c] = "Done" /\ concurrent[c] /\ received[c] # <<>>
    /\ \E c, d \in Calls : query[c] # query[d]


\* found_locations of _extract_locations before the duplicates are removed:
\* the matched cities, then the matched states.
FoundLocations(q) ==
    Matches(common_cities, Lower(q)) \o Matches(us_states, Lower(q))

\* The position of the first occurrence of x in xs.
FirstIndex(xs, x) ==
    CHOOSE i \in 1..Len(xs) : xs[i] = x /\ \A j \in 1..(i - 1) : xs[j] # x

\* C11: the list of extracted locations has no duplicates, holds exactly
\* the matched names, each at the position of its first occurrence among the
\* matches (so the names are in the order of their first matches), and
\* extracting again from the same query gives the identical list.
C11_ExtractDedupStable ==
    \A c \in Calls :
        pc[c] \notin {"Idle", "Start", "Classified"} =>
            LET locs == locations[Frame(c)]
                found == FoundLocations(query[c])
            IN  /\ \A i, j \in 1..Len(locs) : locs[i] = locs[j] => i = j
                /\ {locs[i] : i \in 1..Len(locs)} = {found[i] : i \in 1..Len(found)}
                /\ \A i, j \in 1..Len(locs) :
                      i < j => FirstIndex(found, locs[i]) < FirstIndex(found, locs[j])
                /\ _extract_locations(query[c]) = locs
                /\ \A d \in Calls :
                      pc[d] \notin {"Idle", "Start", "Classified"} /\ query[d] = query[c]
                          => locations[Frame(d)] = locs

\* Locations have been extracted from a query naming New York, matched as a
\* city and as a state, and Texas, matched between the two.
C11_Witness ==
    \E c \in Calls :
        /\ pc[c] = "LocationsExtracted"
        /\ Len(FoundLocations(query[c])) = 3
        /\ FoundLocations(query[c])[1] = FoundLocations(query[c])[3]
        /\ Len(locations[Frame(c)]) = 2
        /\ locations[Frame(c)][1] = FoundLocations(query[c])[1]


(***************************************************************************)
(* Properties of get_consensus_weather.                                    *)
(***************************************************************************)
\* The consensus of the call has been computed.
ConsensusMade == cw_pc \in {"Consensus", "Done"} /\ consensus # NoConsensus

\* The positions of the queried sources that returned data.
Succeeded == {i \in 1..Len(cw_fetched) : cw_fetched[i].kind = "data"}

\* C12: whenever at least one source returned data, a consensus is
\* computed and its confidence score is between 0.5 and 1.0, and so is the
\* reliability score of the returned dict.
C12_ConfidenceRange ==
    /\ ConsensusMade =>
          consensus.confidence_score >= 50 /\ consensus.confidence_score <= 100
    /\ cw_pc = "Done" /\ Succeeded # {} =>
          /\ cw_result.success = TRUE
          /\ cw_result.consensus = consensus
          /\ cw_result.reliability_score >= 50
          /\ cw_result.reliability_score <= 100

\* A call is done whose sources reported 60 and 90: the confidence is at
\* the floor.
C12_Witness ==
    /\ cw_pc = "Done"
    /\ Len(source_results) = 2
    /\ source_results[1][2].temperature = 60
    /\ source_results[2][2].temperature = 90
    /\ cw_result.reliability_score = 50

\* C13: when no source returned data the call returns success false with
\* an error message and no consensus, and no consensus is ever computed from
\* an empty set of observations.
C13_NoDataFails ==
    /\ cw_pc \in {"Consensus", "Done"} /\ Succeeded = {} =>
          /\ cw_pc = "Done"
          /\ consensus = NoConsensus
          /\ cw_result.success = FALSE
          /\ "error" \in DOMAIN cw_result
          /\ "consensus" \notin DOMAIN cw_result
    /\ ConsensusMade => source_results # <<>> /\ consensus.source_count >= 1

\* A call is done after one source raised and the others returned nothing.
C13_Witness ==
    /\ cw_pc = "Done"
    /\ Len(cw_fetched) = Len(data_sources)
    /\ cw_fetched[1].kind = "raise"
    /\ cw_fetched[2].kind = "none"
    /\ cw_fetched[3].kind = "none"
    /\ cw_result.success = FALSE

\* The name a source gives itself in its data.
SourceName == (NWS :> "NWS") @@ (WTTR :> "WTTR") @@ (EXISTING_MCP :> "MCP")

\* The names of the sources at the positions of `positions`, in order.
RECURSIVE NamesAt(_, _)
NamesAt(positions, i) ==
    IF i > Len(data_sources) THEN <<>>
    ELSE (IF i \in positions THEN <<SourceName[data_sources[i]]>> ELSE <<>>)
         \o NamesAt(positions, i + 1)

\* C14: a failing source does not block the others: the sources are
\* queried in order, each once, all of them by the end of the loop whatever
\* the earlier ones did, and the consensus counts and names exactly the
\* sources that returned data, at least one.
C14_AllSourcesQueried ==
    /\ Len(cw_queried) <= Len(data_sources)
    /\ \A i \in 1..Len(cw_queried) : cw_queried[i] = data_sources[i]
    /\ cw_pc \in {"Queried", "Consensus", "Done"} => cw_queried = data_sources
    /\ ConsensusMade =>
          /\ consensus.source_count = Cardinality(Succeeded)
          /\ consensus.source_count >= 1
          /\ consensus.data_sources = NamesAt(Succeeded, 1)
    /\ cw_pc = "Done" /\ cw_result.success = TRUE =>
          cw_result.sources_used = Cardinality(Succeeded)

\* A call is done with two contributing sources after the first one raised.
C14_Witness ==
    /\ cw_pc = "Done"
    /\ cw_fetched[1].kind = "raise"
    /\ cw_result.success = TRUE
    /\ cw_result.consensus.source_count = 2
    /\ cw_result.consensus.data_sources = <<"WTTR", "MCP">>


\* The condition strings of the sources that returned data, one per source,
\* in source-iteration order.
RawConditions == [i \in 1..Len(source_results) |-> source_results[i][2].conditions]

\* The most frequent string of xs; of several equally frequent ones, the
\* one that occurs first in xs.
FirstMostCommon(xs) ==
    xs[CHOOSE i \in 1..Len(xs) :
          /\ \A j \in 1..Len(xs) : Count(xs, xs[j]) <= Count(xs, xs[i])
          /\ \A j \in 1..(i - 1) : Count(xs, xs[j]) < Count(xs, xs[i])]

\* C15: the consensus condition text is the most frequent condition string
\* of the contributing sources, each source counted once, and of several
\* equally frequent strings the one that occurs first in source-iteration
\* order.
C15_ConditionsFirstMode ==
    ConsensusMade => consensus.conditions = FirstMostCommon(RawConditions)

\* Fractions with positive denominators, compared over the least common
\* denominator.
RECURSIVE Gcd(_, _)
Gcd(m, n) == IF n = 0 THEN m ELSE Gcd(n, m % n)

Reduced(a) ==
    LET g == Gcd(IF a.num < 0 THEN -a.num ELSE a.num, a.den)
    IN  [num |-> a.num \div g, den |-> a.den \div g]

FracEq(a, b) ==
    LET g == Gcd(a.den, b.den)
    IN  a.num * (b.den \div g) = b.num * (a.den \div g)

FracLeq(a, b) ==
    LET g == Gcd(a.den, b.den)
    IN  a.num * (b.den \div g) <= b.num * (a.den \div g)

\* round(reliability * 10), a tie going to the even integer.
RoundedWeight(source) == RoundHalfEven(source_reliability[source] * 10, 100)

\* sum(w_s * value_s) / sum(w_s) over the contributing sources, with the
\* weights w.
WeightedMean(results, field, w(_)) ==
    [num |-> Sum([i \in 1..Len(results) |-> w(results[i][1]) * results[i][2][field]]),
     den |-> Sum([i \in 1..Len(results) |-> w(results[i][1])])]

\* C16: the means of the replicated temperatures and humidities are the
\* weighted means sum(w * value) / sum(w) with w = round(reliability * 10),
\* the consensus holds them rounded to one decimal, and for the
\* reliabilities 0.9, 0.8 and 0.85 the weights of the code are these rounded
\* weights.
C16_WeightedMeans ==
    /\ \A i \in 1..Len(data_sources) :
          Weight(data_sources[i]) = RoundedWeight(data_sources[i])
    /\ ConsensusMade =>
          LET t == WeightedMean(source_results, "temperature", RoundedWeight)
              h == WeightedMean(source_results, "humidity", RoundedWeight)
          IN  /\ FracEq(Mean(Replicated(source_results, "temperature")), t)
              /\ FracEq(Mean(Replicated(source_results, "humidity")), h)
              /\ consensus.temperature = Round(t, 10)
              /\ consensus.humidity = Round(h, 10)

\* A consensus has been computed from NWS reporting 60 and MCP reporting
\* 90: (9 * 60 + 8 * 90) / 17 = 74.1.
C16_Witness ==
    /\ ConsensusMade
    /\ Len(source_results) = 2
    /\ source_results[1][1] = NWS /\ source_results[1][2].temperature = 60
    /\ source_results[2][1] = EXISTING_MCP /\ source_results[2][2].temperature = 90
    /\ consensus.temperature = 741

\* The sample variance of xs from its definition: the squared deviations
\* from the mean, summed and divided by n - 1.
VarianceByDefinition(xs) ==
    LET n == Len(xs)
        total == Sum(xs)
    IN  IF n <= 1 THEN [num |-> 0, den |-> 1]
        ELSE Reduced([num |-> Sum([i \in 1..n |-> (n * xs[i] - total) * (n * xs[i] - total)]),
                      den |-> n * n * (n - 1)])

\* max(0.5, 1 - v / 100)
ConfidenceOf(v) ==
    IF FracLeq([num |-> 50, den |-> 1], v) THEN [num |-> 1, den |-> 2]
    ELSE Reduced([num |-> 100 * v.den - v.num, den |-> 100 * v.den])

\* The sources that report, with the temperatures they report.
RECURSIVE Reported(_, _, _)
Reported(reports, temps, i) ==
    IF i > Len(data_sources) THEN <<>>
    ELSE (IF reports[i]
          THEN << <<data_sources[i], [temperature |-> temps[i]]>> >>
          ELSE <<>>) \o Reported(reports, temps, i + 1)

\* Variance and confidence for every set of reporting sources and every
\* combination of temperatures.
ConfidenceTable ==
    { LET population == Replicated(Reported(reports, temps, 1), "temperature")
      IN  [variance |-> VarianceByDefinition(population),
           confidence |-> Reduced(Confidence(population)),
           score |-> Round(Confidence(population), 100)] :
        reports \in [1..Len(data_sources) -> BOOLEAN],
        temps \in [1..Len(data_sources) -> Temperatures \cup {70}] }

\* C17: the confidence is max(0.5, 1 - variance / 100) of the replicated
\* temperatures, the score of the consensus is this value rounded to two
\* decimals, both are non-increasing in the variance over all observation
\* sets, the confidence is 0.5 whenever the variance is 50 or more (as for
\* sources reporting 60 and 90), and it is above 0.9 for two equally
\* weighted sources reporting 72 and 74.
C17_ConfidenceFormula ==
    ConsensusMade =>
        LET population == Replicated(source_results, "temperature")
            v == VarianceByDefinition(population)
            c == Confidence(population)
            temps == {source_results[i][2].temperature : i \in 1..Len(source_results)}
        IN  /\ FracEq(c, ConfidenceOf(v))
            /\ consensus.confidence_score = Round(ConfidenceOf(v), 100)
            /\ \A other \in ConfidenceTable :
                  /\ FracLeq(v, other.variance) =>
                        /\ FracLeq(other.confidence, c)
                        /\ other.score <= consensus.confidence_score
                  /\ FracLeq(other.variance, v) =>
                        /\ FracLeq(c, other.confidence)
                        /\ consensus.confidence_score <= other.score
            /\ FracLeq([num |-> 50, den |-> 1], v) =>
                  /\ FracEq(c, [num |-> 1, den |-> 2])
                  /\ consensus.confidence_score = 50
            /\ Len(source_results) = 2 /\ temps = {60, 90} => consensus.confidence_score = 50
            /\ Len(source_results) = 2 /\ temps = {72, 74}
                  /\ Weight(source_results[1][1]) = Weight(source_results[2][1])
                  => consensus.confidence_score > 90

\* A consensus has been computed from the equally weighted WTTR and MCP
\* reporting 72 and 74: variance 16/15, score 0.99.
C17_Witness ==
    /\ ConsensusMade
    /\ Len(source_results) = 2
    /\ source_results[1][1] = WTTR /\ source_results[1][2].temperature = 72
    /\ source_results[2][1] = EXISTING_MCP /\ source_results[2][2].temperature = 74
    /\ FracEq(VarianceByDefinition(Replicated(source_results, "temperature")),
              [num |-> 16, den |-> 15])
    /\ consensus.confidence_score = 99


(***************************************************************************)
(* Properties of process_coordinated_query.                                *)
(***************************************************************************)
HasKeyword(words, q) ==
    \E i \in 1..Len(words) : Contains(Lower(q), words[i])

\* The workflow the precedence travel, alerts, consensus, weather gives.
ByPrecedence(q) ==
    CHOOSE w \in agent_routes :
       /\ (w = "travel") <=> HasKeyword(travel_words, q)
       /\ (w = "alerts") <=>
             (~HasKeyword(travel_words, q) /\ HasKeyword(monitor_words, q))
       /\ (w = "intelligence") <=>
             (/\ ~HasKeyword(travel_words, q)
              /\ ~HasKeyword(monitor_words, q)
              /\ HasKeyword(intelligence_words, q))

\* C18: with coordination_type "auto" the workflow is the one the fixed
\* precedence gives (a travel keyword wins whatever else the query holds,
\* then an alert keyword, then a consensus keyword, otherwise plain
\* weather), the route of that workflow is the one invoked, and no second
\* route is invoked in the call.
C18_PrecedenceOneWorkflow ==
    [][/\ (hub_pc = "Start" /\ coordination_type = "auto")
            => coordination_type' = ByPrecedence(hub_query)
       /\ (hub_pc = "Routing" /\ coordination_type \in agent_routes)
            => (hub_invoked = <<>> /\ hub_invoked' = <<coordination_type>>)
       /\ (hub_pc \in {"Routed", "Done"}) => hub_invoked' = hub_invoked]_vars

\* A query with a travel keyword and an alert keyword went to the travel
\* workflow and to no other.
C18_Witness ==
    /\ hub_pc = "Done"
    /\ HasKeyword(travel_words, hub_query)
    /\ HasKeyword(monitor_words, hub_query)
    /\ coordination_type = "travel"
    /\ hub_invoked = <<"travel">>

C20_NeverUncaughtFault ==
    /\ hub_pc # "Faulted"
    /\ hub_pc = "Done" => (hub_result.success <=> ~hub_result.error)


\* C21: on the weather route a failure of the graph engine is never what the
\* caller gets: a result the route returns is a success, or it was produced
\* by the simple orchestrator.
C21_WeatherRouteDegrades ==
    (hub_pc \in {"Routed", "Done"} /\ hub_invoked = <<"weather">>) =>
        \/ hub_result.success
        \/ hub_result.agents[Len(hub_result.agents)] = "simple_orchestrator"


(***************************************************************************)
(* Properties of the alert agent.                                          *)
(***************************************************************************)
\* C22: after any sequence of setup calls and checks there are as many
\* subscriptions as setup calls, and each setup call's subscription is stored
\* under the id the call returned with the locations, alert types and
\* thresholds it was created with.
C22_SubscriptionsKept ==
    /\ Len(alert_subscriptions) = Len(setups)
    /\ \A n \in 1..Len(setups) :
          \E k \in 1..Len(alert_subscriptions) :
             /\ alert_subscriptions[k].id = setups[n].alert_id
             /\ alert_subscriptions[k].config.locations = setups[n].config.locations
             /\ alert_subscriptions[k].config.alert_types = setups[n].config.alert_types
             /\ alert_subscriptions[k].config.thresholds = setups[n].config.thresholds

\* The replies of the check, in order.
Replies == SelectSeq(chk_log, LAMBDA e : e.event = "reply")

\* C23: on a new agent, a setup for one location followed by a check whose
\* text for that location contains "severe storm warning" returns exactly one
\* alert, for that location and that subscription, with severity HIGH.
C23_RoundTripHigh ==
    (/\ chk_pc = "Done"
     /\ Len(setups) = 1
     /\ Len(setups[1].config.locations) = 1
     /\ Len(Replies) = 1
     /\ Replies[1].result.success
     /\ Contains(Replies[1].result.response, STORM_TEXT))
    => /\ Len(triggered_alerts) = 1
       /\ triggered_alerts[1].location = setups[1].config.locations[1]
       /\ triggered_alerts[1].subscription_id = setups[1].alert_id
       /\ triggered_alerts[1].severity = HIGH

\* An alert without the fields taken from the clock.
Essence(alert) ==
    [location |-> alert.location, severity |-> alert.severity,
     conditions |-> alert.conditions, weather_summary |-> alert.weather_summary,
     subscription_id |-> alert.subscription_id]

\* The alerts that follow from the replies of one check alone.
RECURSIVE AlertsOfReplies(_)
AlertsOfReplies(replies) ==
    IF replies = <<>> THEN <<>>
    ELSE LET e == Head(replies)
             a == IF e.result.success THEN Analysis(e.result.response)
                  ELSE [alert_conditions |-> <<>>]
         IN  (IF a.alert_conditions # <<>>
              THEN <<[location |-> e.location, severity |-> a.severity,
                      conditions |-> a.alert_conditions,
                      weather_summary |-> e.result.response,
                      subscription_id |-> e.id]>>
              ELSE <<>>) \o AlertsOfReplies(Tail(replies))

\* A step of the check that receives a reply.
IsReplyStep == chk_pc = "Awaiting" /\ chk_log' # chk_log

C25_ChecksRecur ==
    /\ [](mon_pc # "Off" => []<>(mon_pc = "Checking" /\ chk_pc = "Start"))
    /\ [][/\ (mon_pc = "Checking" /\ chk_pc' = "Done") => mon_pc' = "Sleeping"
          /\ (mon_pc = "Checking" /\ chk_pc' = "Raised") => mon_pc' = "Retrying"
          /\ (mon_pc \in {"Sleeping", "Retrying"} /\ mon_pc' # mon_pc) =>
                (mon_pc' = "Checking" /\ chk_pc' = "Start")]_vars

\* A pass has raised, a setup call having changed the dict while the check
\* was suspended, and the loop sleeps before its next pass.
C25_Witness ==
    /\ mon_pc = "Retrying"
    /\ chk_pc = "Raised"
    /\ chk_size < Len(alert_subscriptions)


\* The source calls process_query issues for the query the check sends for
\* a location.
CheckCallsOf ==
    [location \in {TEXAS, MIAMI} |->
        GatherCalls(_classify_task(weather_query(location)),
                    _extract_locations(weather_query(location)))]

\* The queries the check has sent.
QueriesSent == SelectSeq(chk_log, LAMBDA e : e.event = "query")

\* C29: every query the check sends for a location of an active subscription
\* makes the orchestrator issue one current-conditions call for that
\* location, and the text of the reply is what the alert analysis is run on.
C29_CurrentConditionsFetched ==
    /\ \A n \in 1..Len(QueriesSent) :
          LET calls == CheckCallsOf[QueriesSent[n].location] IN
          /\ Len(calls) = 1
          /\ calls[1].tool = "get_weather"
          /\ calls[1].location = QueriesSent[n].location
    /\ chk_pc = "Done" =>
          [k \in 1..Len(triggered_alerts) |-> Essence(triggered_alerts[k])]
             = AlertsOfReplies(Replies)


\* The subscriptions the check has come to, with the flag and the locations
\* they had then.
Visits == SelectSeq(chk_log, LAMBDA e : e.event = "visit")

\* The number of elements of xs that satisfy Test.
CountOf(xs, Test(_)) == Len(SelectSeq(xs, Test))

\* The number of (active subscription, location) pairs of the visits.
RECURSIVE ActivePairs(_)
ActivePairs(visits) ==
    IF visits = <<>> THEN 0
    ELSE (IF Head(visits).active THEN Len(Head(visits).locations) ELSE 0)
         + ActivePairs(Tail(visits))

\* C30: a subscription whose active flag is false when the check comes to it
\* is skipped, no query is sent and no alert is returned for it; a finished
\* check has sent one query per (active subscription, location) pair and
\* returned at most one alert per pair.
C30_InactiveSkipped ==
    /\ \A n \in 1..Len(Visits) :
          LET v == Visits[n] IN
          /\ ~v.active =>
                /\ CountOf(QueriesSent, LAMBDA q : q.id = v.id) = 0
                /\ CountOf(triggered_alerts, LAMBDA a : a.subscription_id = v.id) = 0
          /\ \A j \in 1..Len(v.locations) :
                CountOf(triggered_alerts,
                        LAMBDA a : a.subscription_id = v.id /\ a.location = v.locations[j])
                   <= CountOf(v.locations, LAMBDA l : l = v.locations[j])
    /\ \A k \in 1..Len(triggered_alerts) :
          \E n \in 1..Len(Visits) :
             /\ Visits[n].active
             /\ Visits[n].id = triggered_alerts[k].subscription_id
    /\ chk_pc = "Done" =>
          /\ Len(QueriesSent) = ActivePairs(Visits)
          /\ Len(triggered_alerts) <= ActivePairs(Visits)

\* A finished check came to a deactivated subscription, which it skipped,
\* and to an active one, for which it returned an alert.
C30_Witness ==
    /\ chk_pc = "Done"
    /\ \E n \in 1..Len(Visits) : ~Visits[n].active /\ Visits[n].locations # <<>>
    /\ \E n \in 1..Len(Visits) : Visits[n].active
    /\ triggered_alerts # <<>>


(***************************************************************************)
(* Properties of the travel workflow.                                      *)
(***************************************************************************)
\* A number is written before "day" or "days": a word of digits followed by
\* a word that starts with "day".
IsNumber(w) == w # <<>> /\ \A i \in 1..Len(w) : IsDigit(w[i])

NumberedDays(words) ==
    { i \in 1..(Len(words) - 1) :
        IsNumber(words[i]) /\ OccursAt(words[i + 1], <<"d","a","y">>, 1) }

\* The trip duration as the rule states it.
StatedDuration(q) ==
    LET words == Words(Lower(q)) IN
    IF Contains(Lower(q), <<"w","e","e","k","e","n","d">>) THEN 3
    ELSE IF Contains(Lower(q), <<"w","e","e","k">>) THEN 7
    ELSE IF NumberedDays(words) # {}
    THEN IntOf(words[CHOOSE i \in NumberedDays(words) :
                        \A k \in NumberedDays(words) : i <= k])
    ELSE 7

StatedDurationOf == [q \in TravelQueries |-> StatedDuration(q)]

\* The last call made for a destination.
LastCallFor(city) ==
    tr_calls[CHOOSE i \in 1..Len(tr_calls) :
                /\ tr_calls[i].city = city
                /\ \A k \in (i + 1)..Len(tr_calls) : tr_calls[k].city # city]

\* One call was made for every destination, in order, and what each
\* destination's call returned, a failure too, is recorded for it.
CallsPerDestination ==
    /\ Len(tr_calls) = Len(travel_context.destinations)
    /\ \A i \in 1..Len(tr_calls) :
          /\ tr_calls[i].city = travel_context.destinations[i]
          /\ tr_calls[i].city \in DOMAIN weather_results
          /\ weather_results[tr_calls[i].city] = LastCallFor(tr_calls[i].city).reply

\* C26: the trip duration is 3 with "weekend", else 7 with "week", else the
\* number written before "day" or "days", else the default 7; one
\* current-conditions call is issued for every destination and a failing
\* call is recorded for its destination without aborting the others.
C26_DurationAndCalls ==
    /\ tr_pc \in {"Weather", "Done"} =>
          travel_context.duration = StatedDurationOf[travel_query]
    /\ tr_pc = "Done" => CallsPerDestination


(***************************************************************************)
(* Properties of the execution log and of the formatter.                   *)
(***************************************************************************)
\* The place of a log entry in the order of the steps.
EntryRank(entry) ==
    CASE entry.step = "classified" -> 1
      [] entry.step = "locations" -> 2
      [] entry.step \in {"gathered_weather", "gathered_forecast", "no_coordinates",
                         "gathered_alerts"} -> 3
      [] entry.step = "response" -> 4
      [] entry.step = "error" -> 5

IsPrefix(xs, ys) == Len(xs) <= Len(ys) /\ SubSeq(ys, 1, Len(xs)) = xs

\* C27: the execution log of a query only grows at its end; its entries are in
\* the order classification, locations, gathering, response; the log of a
\* successful result ends with the response entry, the log of a failed
\* result ends with the error entry, after every entry written before.
C27_LogAppendOnlyOrdered ==
    /\ [][\A f \in Calls : IsPrefix(execution_log[f], execution_log'[f])]_vars
    /\ [](\A c \in Calls :
            LET log == execution_log[Frame(c)] IN
            /\ \A i \in 1..Len(log) : i = 1 => log[i].step = "classified"
            /\ \A i, j \in 1..Len(log) : i < j => EntryRank(log[i]) < EntryRank(log[j])
            /\ (pc[c] = "Done" /\ result[c].success = TRUE) =>
                  /\ result[c].execution_log = log
                  /\ log[Len(log)].step = "response"
                  /\ log[2].step = "locations"
            /\ (pc[c] = "Done" /\ result[c].success = FALSE) =>
                  /\ result[c].execution_log = log
                  /\ log[Len(log)].step = "error"
                  /\ \A i \in 1..(Len(log) - 1) : log[i].step # "error")

\* A call failed after its gathering step and a call succeeded after one:
\* the error entry, or the response entry, is the fourth entry of its log.
C27_Witness ==
    \E c \in Calls :
        /\ pc[c] = "Done"
        /\ result[c].success = FALSE
        /\ Len(execution_log[Frame(c)]) = 4
        /\ execution_log[Frame(c)][3].step = "gathered_weather"
        /\ execution_log[Frame(c)][4].step = "error"


\* A gathered value is a success or an error result of its source: for the
\* weather categories an observation object or an error dict.
IsResultOf(task, v) ==
    task \in {WEATHER_QUERY, MULTI_LOCATION} => v.type = "dict"

ResultsOnly(task, data) == \A key \in DOMAIN data : IsResultOf(task, data[key])

\* The rule of a category applies to the gathered data.
RuleApplies(task, data, locs) ==
    CASE task = WEATHER_QUERY -> Len(locs) = 1 /\ Lower(locs[1]) \in DOMAIN data
      [] task = MULTI_LOCATION -> \E i \in 1..Len(locs) : Lower(locs[i]) \in DOMAIN data
      [] task = FORECAST_ANALYSIS ->
            /\ locs # <<>>
            /\ KEY_forecast \in DOMAIN data
            /\ \/ data[KEY_forecast].body = "text"
               \/ data[KEY_forecast].type = "dict" /\ data[KEY_forecast].has_error
      [] task = ALERT_MONITORING ->
            /\ locs # <<>>
            /\ KEY_alerts \in DOMAIN data
            /\ \/ data[KEY_alerts].body \in {"text", "no_alerts_text"}
               \/ data[KEY_alerts].type = "dict" /\ data[KEY_alerts].has_error
      [] OTHER -> FALSE

\* The response rules of a category.
RulesOf(task) ==
    CASE task = WEATHER_QUERY -> {"weather_current", "weather_error"}
      [] task = MULTI_LOCATION -> {"weather_comparison"}
      [] task = FORECAST_ANALYSIS -> {"forecast_text", "forecast_error"}
      [] task = ALERT_MONITORING -> {"alerts_none", "alerts_text", "alerts_error"}
      [] OTHER -> {}

\* C28: whatever the category, the resolved locations (none included) and the
\* success and error results gathered, the formatter yields a response text:
\* by a rule of the category when that rule applies (for WeatherQuery only
\* with exactly one resolved location that has a result), by the raw-data
\* fallback in every other case; the call then returns success = true.
C28_FormattingTotal ==
    \A c \in Calls :
        LET f == Frame(c)
            task == task_type[f]
            data == gathered_data[f]
            locs == locations[f]
        IN  (pc[c] \in {"Responded", "Done"} /\ ResultsOnly(task, data)) =>
                /\ response[f].rule \in RulesOf(task) \cup {"fallback"}
                /\ response[f].rule \in RulesOf(task) <=> RuleApplies(task, data, locs)
                /\ response[f].rule = "fallback" => response[f].raw = data
                /\ pc[c] = "Done" =>
                      /\ result[c].success = TRUE
                      /\ result[c].response = response[f]

\* A weather query that resolved two locations, one fetched and one failed,
\* returned the raw-data fallback with success = true.
C28_Witness ==
    \E c \in Calls :
        /\ pc[c] = "Done"
        /\ task_type[Frame(c)] = WEATHER_QUERY
        /\ Len(locations[Frame(c)]) = 2
        /\ \E k1, k2 \in DOMAIN gathered_data[Frame(c)] :
              /\ gathered_data[Frame(c)][k1].has_error
              /\ gathered_data[Frame(c)][k2].body = "observation"
        /\ result[c].success = TRUE
        /\ result[c].response.rule = "fallback"


(***************************************************************************)
(* Severity of an alert.                                                   *)
(***************************************************************************)
\* C37: every alert whose conditions include "Severe weather detected" has
\* severity HIGH, also when extreme-temperature or travel-disruption
\* conditions were matched in the same text.
C37_SevereIsHigh ==
    \A n \in 1..Len(alert_history) :
        (\E k \in 1..Len(alert_history[n].conditions) :
            alert_history[n].conditions[k] = SEVERE_WEATHER)
        => alert_history[n].severity = HIGH


(***************************************************************************)
(* A setup while a check is suspended.                                     *)
(***************************************************************************)
\* C36: a setup made while a check is suspended at a query does not make the
\* check fail: the check never raises, and every subscription stored by a
\* setup is in alert_subscriptions.
C36_CheckSurvivesSetup ==
    /\ chk_pc # "Raised"
    /\ \A n \in 1..Len(setups) :
          \E k \in 1..Len(alert_subscriptions) :
              alert_subscriptions[k].id = setups[n].alert_id


(***************************************************************************)
(* Properties of the alert route of the hub.                               *)
(***************************************************************************)
\* The text contains "setup" or "monitor", in any case of letters.
HasSetupWord(q) ==
    \E i \in 1..Len(q), w \in {<<"s","e","t","u","p">>, <<"m","o","n","i","t","o","r">>} :
        /\ i + Len(w) - 1 <= Len(q)
        /\ Lower(SubSeq(q, i, i + Len(w) - 1)) = w

\* The route is entered.
IsRouteEntry == hub_pc = "Routing" /\ hub_pc' # "Routing"

\* A step of the check made for the hub.
IsHubCheckStep ==
    \/ IsRouteEntry /\ hub_pc' = "Checking"
    \/ hub_pc = "Checking" /\ (chk_pc' # chk_pc \/ chk_log' # chk_log \/ hub_pc' # hub_pc)

\* The alert route creates a subscription if and only if the text has a
\* setup word, with the extracted locations or San Francisco; otherwise it
\* runs a check, which leaves the subscriptions as they are and returns.
C31_Step ==
    /\ IsRouteEntry =>
          /\ HasSetupWord(hub_query) <=> Len(setups') = Len(setups) + 1
          /\ HasSetupWord(hub_query) =>
                LET made == setups'[Len(setups')]
                    k == IndexOf(alert_subscriptions', made.alert_id)
                IN  /\ k # 0
                    /\ alert_subscriptions'[k].config = made.config
                    /\ made.config.locations =
                          (IF _extract_locations(hub_query) = <<>> THEN <<SAN_FRANCISCO>>
                           ELSE _extract_locations(hub_query))
                    /\ made.config.active
                    /\ hub_result'.success = TRUE
                    /\ hub_result'.coordination_type = "alert_setup"
                    /\ chk_log' = chk_log
          /\ ~HasSetupWord(hub_query) => hub_pc' = "Checking"
    /\ IsHubCheckStep =>
          /\ alert_subscriptions' = alert_subscriptions
          /\ setups' = setups
          /\ hub_pc' # "Faulted"
          /\ hub_pc' = "Routed" =>
                /\ hub_result'.success = TRUE
                /\ hub_result'.coordination_type = "alert_check"
                /\ [k \in 1..Len(triggered_alerts) |-> Essence(triggered_alerts[k])]
                      = AlertsOfReplies(Replies)

\* C31: a query routed to the alert workflow creates a subscription if and
\* only if its text contains "setup" or "monitor" (for the extracted
\* locations, or San Francisco when there is none); otherwise it runs a
\* check, returns success = true with the alerts found, and leaves the
\* subscriptions unchanged.
C31_SetupOrCheck == [][C31_Step]_vars

\* The same holds of every step but the one in which a check overtaken by a
\* setup raises.
C31_ExceptOvertakenCheck ==
    [][(IsHubCheckStep /\ hub_pc' = "Faulted") \/ C31_Step]_vars


(***************************************************************************)
(* Properties of make_api_request.                                         *)
(***************************************************************************)
\* The attempts made so far, in order.
AttemptsMade == SelectSeq(rq_log, LAMBDA e : e.event = "attempt")

\* The attempt returned data: a 2xx status with a JSON body.
GotData(e) ==
    /\ e.outcome.kind = "status"
    /\ e.outcome.code >= 200
    /\ e.outcome.code <= 299

\* C32: make_api_request terminates; it makes at most max_retries attempts,
\* returns the data of the first successful attempt without a further
\* attempt, waits 2^k seconds after the k-th failed attempt only when another
\* attempt follows (no wait after the last one), and returns None when all
\* attempts failed.
C32_BoundedRetry ==
    /\ <>(rq_pc = "Done")
    /\ [](/\ Len(AttemptsMade) <= max_retries
          /\ \A k \in 1..Len(AttemptsMade) : AttemptsMade[k].n = k
          /\ \A k \in 1..(Len(AttemptsMade) - 1) : ~GotData(AttemptsMade[k])
          /\ \A p \in 1..Len(rq_log) :
                rq_log[p].event = "sleep" =>
                   /\ p > 1
                   /\ rq_log[p - 1].event = "attempt"
                   /\ ~GotData(rq_log[p - 1])
                   /\ rq_log[p].seconds = 2 ^ (rq_log[p - 1].n)
                   /\ rq_pc = "Done" =>
                         p < Len(rq_log) /\ rq_log[p + 1].event = "attempt"
          /\ \A p \in 2..Len(rq_log) :
                rq_log[p].event = "attempt" => rq_log[p - 1].event = "sleep"
          /\ rq_pc = "Done" =>
                /\ rq_result \in {"data", "None"}
                /\ rq_result = "data" <=>
                      /\ AttemptsMade # <<>>
                      /\ GotData(AttemptsMade[Len(AttemptsMade)]))

\* Three attempts failed, with waits of 2 and 4 seconds between them and
\* none after the last, and None was returned.
C32_Witness ==
    /\ rq_pc = "Done"
    /\ rq_result = "None"
    /\ Len(rq_log) = 5
    /\ rq_log[2].event = "sleep" /\ rq_log[2].seconds = 2
    /\ rq_log[4].event = "sleep" /\ rq_log[4].seconds = 4
    /\ rq_log[5].event = "attempt" /\ rq_log[5].outcome.kind = "timeout"

\* The outcome is an HTTP status from 400 to 499.
Is4xx(outcome) == outcome.kind = "status" /\ outcome.code \in 400..499

\* C33: an attempt that ends with a 4xx status is the last event of the call,
\* which returns None: no attempt and no wait follows it; a timeout, a 5xx
\* status or any other error is followed by a wait and another attempt while
\* attempts remain.
C33_ClientErrorsNotRetried ==
    \A p \in 1..Len(rq_log) :
        rq_log[p].event = "attempt" =>
            /\ Is4xx(rq_log[p].outcome) =>
                  /\ p = Len(rq_log)
                  /\ rq_pc = "Done"
                  /\ rq_result = "None"
            /\ (/\ ~Is4xx(rq_log[p].outcome)
                /\ ~GotData(rq_log[p])
                /\ rq_log[p].n < max_retries) =>
                  /\ p < Len(rq_log)
                  /\ rq_log[p + 1].event = "sleep"
                  /\ rq_pc = "Done" =>
                        /\ p + 1 < Len(rq_log)
                        /\ rq_log[p + 2].event = "attempt"
                        /\ rq_log[p + 2].n = rq_log[p].n + 1

\* A 503 was retried and the second attempt ended with a 404, after which
\* the call returned although a third attempt remained.
C33_Witness ==
    /\ max_retries = 3
    /\ rq_pc = "Done"
    /\ Len(rq_log) = 3
    /\ rq_log[1].outcome = Attempt("status", 503)
    /\ rq_log[2].event = "sleep"
    /\ rq_log[3].outcome = Attempt("status", 404)


(***************************************************************************)
(* Properties of the rate limiter.                                         *)
(***************************************************************************)
\* The calls before call k that were admitted and are inside the window of
\* call k: made less than `window` seconds before it.
AdmittedInWindow(k, window, tools) ==
    {j \in 1..(k - 1) :
        /\ rl_log[j].admitted
        /\ rl_log[j].tool \in tools
        /\ rl_log[k].time - rl_log[j].time < window}

\* C34: in any window of window_seconds at most max_requests calls of a tool
\* are admitted; a call arriving when max_requests admitted calls of its tool
\* are inside the window is rejected with status 429; rejected calls are not
\* recorded; admitted calls older than the window do not count.
C34_RateLimited ==
    /\ \A tool \in Tools, start \in (0 - WindowSeconds)..MaxRateClock :
          Cardinality({k \in 1..Len(rl_log) :
                          /\ rl_log[k].tool = tool
                          /\ rl_log[k].admitted
                          /\ start <= rl_log[k].time
                          /\ rl_log[k].time < start + window_seconds[tool]})
             <= max_requests[tool]
    /\ \A k \in 1..Len(rl_log) :
          LET tool == rl_log[k].tool IN
          /\ Cardinality(AdmittedInWindow(k, window_seconds[tool], {tool}))
                >= max_requests[tool]
             => ~rl_log[k].admitted /\ rl_log[k].status = 429
          /\ Cardinality(AdmittedInWindow(k, window_seconds[tool], Tools))
                < max_requests[tool]
             => rl_log[k].admitted
    /\ LET n == Len(rl_log)
           recorded == SelectSeq(rl_log, LAMBDA e :
                          e.admitted /\ rl_log[n].time - e.time < WindowSeconds)
       IN  n > 0 => request_counts = [k \in 1..Len(recorded) |-> recorded[k].time]

\* get_alerts was admitted, then rejected within the window, then admitted
\* again when the first call had left the window.
C34_Witness ==
    /\ Len(rl_log) >= 3
    /\ \A k \in 1..3 : rl_log[k].tool = "get_alerts"
    /\ rl_log[1].admitted
    /\ ~rl_log[2].admitted
    /\ rl_log[3].admitted
    /\ rl_log[3].time = rl_log[1].time + WindowSeconds

\* C35: whether a call of a tool is admitted depends on the earlier calls of
\* that tool only: a call is rejected only when max_requests admitted calls
\* of its own tool are inside its window.
C35_ToolsIndependent ==
    \A k \in 1..Len(rl_log) :
        LET tool == rl_log[k].tool IN
        ~rl_log[k].admitted =>
            Cardinality(AdmittedInWindow(k, window_seconds[tool], {tool}))
               >= max_requests[tool]


(***************************************************************************)
(* The two engines.                                                        *)
(***************************************************************************)
\* The tool and the arguments of each call of a list of calls.
Requests(calls) == [k \in 1..Len(calls) |-> <<calls[k].tool, calls[k].arg>>]

\* C38: given the same task type and the same resolved locations, the graph
\* engine and the simple engine issue the same source calls: the same tools
\* with the same arguments, in the same number.
C38_SameSourceCalls ==
    (pc[1] = "Done" /\ pc[2] = "Done") => Requests(callLog[2]) = Requests(callLog[1])

\* The same, for the weather and comparison queries only: one
\* current-conditions call per location, in order.
C38_SameWeatherCalls ==
    (/\ pc[1] = "Done" /\ pc[2] = "Done"
     /\ task_type[1] \in {WEATHER_QUERY, MULTI_LOCATION, GENERAL_INQUIRY})
    => Requests(callLog[2]) = Requests(callLog[1])

============================================================================
